---- MODULE Spec2Model ----
(***************************************************************************)
(* Order fulfilment of the C2C marketplace: the orders, order_items and     *)
(* listings tables and the route handlers that read and write them.         *)
(* PUT /api/orders/[id] is modelled await by await: every database access   *)
(* of the handler is one step, so that two requests interleave exactly      *)
(* where the Node event loop lets them.                                     *)
(***************************************************************************)
EXTENDS Integers, FiniteSets, Sequences, TLC

\* ---------------------------------------------------------------- bounds
MaxOrders == 1      \* orders that POST /api/orders may create in a run
MaxRequests == 2    \* PUT requests started in a run of the concurrent Spec
MaxInFlight == 2    \* requests that can be in flight together
MaxRegistrations == 1  \* accounts registered in a run
Slots == 1 .. MaxInFlight

\* ------------------------------------------------------- users and tokens
\* TokenPayload { sub, role } of the bearer token; NoToken is a request with
\* no (or an unverifiable) Authorization header.
Admin   == [sub |-> 1, role |-> "admin"]
SellerA == [sub |-> 2, role |-> "seller"]
SellerB == [sub |-> 3, role |-> "seller"]
Buyer1  == [sub |-> 4, role |-> "buyer"]
Buyer2  == [sub |-> 5, role |-> "buyer"]
NoToken == [sub |-> 0, role |-> "none"]
\* What stands for the caller when the token of the header does not verify.
BadToken == [sub |-> 0, role |-> "invalid"]
\* The users the database starts with; a user's email is written as a number.
SeedUsers == {Admin, SellerA, SellerB, Buyer1, Buyer2}
\* Buyer1 places the orders of a run; Buyer2 is a buyer who has placed none.
Shoppers == {Buyer1}
Actors  == {Admin, SellerA, SellerB, Buyer1, Buyer2, NoToken}

\* ----------------------------------------------------------------- schema
orderStatusEnum ==
  {"pending", "paid", "shipped", "completed", "cancelled", "approved", "rejected"}
listingStatusEnum == {"active", "sold", "removed"}

\* The listings on offer: listing 1 and 3 belong to seller A, 2 to seller B.
ListingSeller == <<2, 3, 2>>
ListingIds == DOMAIN ListingSeller
\* Money is counted in tenths of a cent, so that a price with a third
\* decimal can be written. The listings start at 0.50, 0.15 and 1.20.
ListingPrice == <<500, 150, 1200>>
\* The item lists a buyer posts: a two-seller cart (two of listing 1, one of
\* listing 2) and a one-seller cart.
Item(listingId, quantity) == [listingId |-> listingId, quantity |-> quantity]
Carts == {<<Item(1, 2), Item(2, 1)>>, <<Item(3, 1)>>}

\* Request bodies of PUT /api/orders/[id]: {status: v} for v in the enum or
\* not, a JSON value that is not an object, and text that is not JSON.
Bodies == orderStatusEnum \cup {"bogus", "<notobject>", "<malformed>"}
\* Raw path segments: text that is no number, "0", the ids POST can hand
\* out, and one id past them that never exists.
RawIds == {"abc"} \cup {ToString(n) : n \in 0 .. (MaxOrders + 1)}

VARIABLES users, nextUserId, listings, orders, orderItems, nextOrderId, reviews,
          reqs, started, migration
vars == <<users, nextUserId, listings, orders, orderItems, nextOrderId, reviews,
          reqs, started, migration>>
db == <<users, nextUserId, listings, orders, orderItems, nextOrderId, reviews>>
\* The tables about users, and the tables about what is sold.
accounts == <<users, nextUserId>>

\* ---------------------------------------------------------------- helpers
NoResp == [status |-> 0, error |-> ""]
jsonOk == [status |-> 200, error |-> ""]
jsonOkStatus(status) == [status |-> status, error |-> ""]
jsonError(message, status) == [status |-> status, error |-> message]

\* What a handler can throw: the AuthError of the middleware, or any other
\* error (a body that is not JSON, a failed database call).
AuthError(message, statusCode) ==
  [name |-> "AuthError", message |-> message, statusCode |-> statusCode]
OtherError == [name |-> "Error", message |-> "", statusCode |-> 0]
NoError == [name |-> "", message |-> "", statusCode |-> 0]

\* authenticate: the payload of a verified bearer token, or AuthError 401.
authenticate(actor) ==
  IF actor = NoToken
    THEN AuthError("Missing or invalid Authorization header", 401)
  ELSE IF actor = BadToken
    THEN AuthError("Invalid or expired token", 401)
  ELSE NoError

\* authorize(...allowedRoles)(payload): AuthError 403 unless the role is allowed.
\* (authorize_anyRole: a guard that lets every role pass.)
authorize_anyRole(allowedRoles, payload) == NoError
authorize(allowedRoles, payload) ==
  IF payload.role \notin allowedRoles
    THEN AuthError("Forbidden: requires role", 403)
    ELSE NoError

\* A token: the payload it was signed for, the key it was signed with, and
\* whether its seven days are over. Text that is no JWT has no key.
JWT_SECRET == "JWT_SECRET"
Token(payload, key, expired) == [payload |-> payload, key |-> key, expired |-> expired]
NotAJwt == Token(NoToken, "", FALSE)
\* jwt.verify(token, getJwtSecret()): the payload, or (here BadToken) a throw.
\* (verifyToken_unsigned: the signature not looked at.)
verifyToken_unsigned(token) ==
  IF token # NotAJwt /\ ~token.expired THEN token.payload ELSE BadToken
verifyToken(token) ==
  IF token.key = JWT_SECRET /\ ~token.expired THEN token.payload ELSE BadToken

\* The Authorization header: the text up to and with the first blank, and
\* the rest of it; no header at all is NoHeader.
Header(scheme, token) == [scheme |-> scheme, token |-> token]
NoHeader == Header("", NotAJwt)
\* authHeader?.startsWith("Bearer "), authHeader.slice(7), verifyToken
bearer(authHeader) ==
  IF authHeader = NoHeader \/ authHeader.scheme # "Bearer "
    THEN NoToken
    ELSE verifyToken(authHeader.token)
\* authenticate(request): the payload returned or the AuthError thrown.
authenticateRequest(authHeader) ==
  LET actor == bearer(authHeader) IN
  IF authenticate(actor) # NoError
    THEN [error |-> authenticate(actor), payload |-> NoToken]
    ELSE [error |-> NoError, payload |-> actor]

\* The status values the handler accepts, and those a seller may ask for.
\* (allowed_adminOnly: the list of the admin-only handler, without approved
\* and rejected; sellerAllowed_any: no restriction on the seller.)
allowed_adminOnly == {"pending", "paid", "shipped", "completed", "cancelled"}
allowed == orderStatusEnum
sellerAllowed_any == orderStatusEnum
sellerAllowed == {"approved", "rejected"}

\* parseId: parseInt(raw, 10), or null (here Null) when that is NaN.
Null == -1
Parsable == 0 .. (MaxOrders + MaxRegistrations + Cardinality(SeedUsers))
parseId(raw) ==
  IF \E n \in Parsable : ToString(n) = raw
    THEN CHOOSE n \in Parsable : ToString(n) = raw
    ELSE Null

\* The catch block of the handlers: an AuthError becomes its own status code,
\* everything else a 500.
\* (catch_authErrorOnly: a catch that lets every other error escape.)
catch_authErrorOnly(err) ==
  IF err.name = "AuthError"
    THEN jsonError(err.message, err.statusCode)
    ELSE [status |-> 0, error |-> "uncaught"]
catch(err) ==
  IF err.name = "AuthError"
    THEN jsonError(err.message, err.statusCode)
    ELSE jsonError("Internal server error", 500)

\* The seller's branch ahead of the first query: only approve or reject, and
\* only an order that is still pending. NoResp lets the handler go on.
\* (sellerCheck_anyState: the branch without its test of the order's status.)
sellerCheck_anyState(status, order) ==
  IF status \notin sellerAllowed
    THEN jsonError("Sellers can only approve or reject orders", 403)
    ELSE NoResp
sellerCheck(status, order) ==
  IF status \notin sellerAllowed
    THEN jsonError("Sellers can only approve or reject orders", 403)
  ELSE IF order.status # "pending"
    THEN jsonError("Only pending orders can be approved or rejected", 400)
  ELSE NoResp

\* items.some((i) => sellerListingIds.has(i.listingId))
\* (hasSellerItem_always: the ownership test left out.)
hasSellerItem_always(items, sellerListingIds) == TRUE
hasSellerItem(items, sellerListingIds) == \E i \in items : i \in sellerListingIds

\* items.map((i) => i.listingId).filter((lid) => sellerListingIds.has(lid))
\* (listingIdsToMark_wholeOrder: the filter left out, every item is marked.)
listingIdsToMark_wholeOrder(items, sellerListingIds) == items
listingIdsToMark(items, sellerListingIds) == {lid \in items : lid \in sellerListingIds}

\* if (status === "approved" && payload.role === "seller"): the handler goes
\* on to mark the seller's listings of the order.
\* (sellerApproved_anyStatus: the test of the status left out.)
sellerApproved_anyStatus(status, role) == role = "seller"
sellerApproved(status, role) == status = "approved" /\ role = "seller"

\* update listings set status = 'sold' where id in (ids)
\* (markSold_toggle: a sold listing is flipped back to active.)
markSold_toggle(table, ids) ==
  [l \in DOMAIN table |->
     IF l \in ids
       THEN [table[l] EXCEPT !.status = IF @ = "sold" THEN "active" ELSE "sold"]
       ELSE table[l]]
markSold(table, ids) ==
  [l \in DOMAIN table |->
     IF l \in ids THEN [table[l] EXCEPT !.status = "sold"] ELSE table[l]]

NoUpdates == [price |-> Null, status |-> ""]
\* A field the JSON body does not have.
Undefined == "<undefined>"
NoBody == [email |-> 0, password |-> Undefined, name |-> Undefined, role |-> Undefined]
IdleReq ==
  [pc |-> "idle", op |-> "", payload |-> NoToken, id |-> Null, body |-> "",
   items |-> {}, sellerListingIds |-> {}, listingIdsToMark |-> {},
   cart |-> <<>>, k |-> 0, resolvedItems |-> <<>>, total |-> 0,
   updates |-> NoUpdates, data |-> {},
   header |-> NoHeader, allowedRoles |-> {}, json |-> NoBody,
   wrote |-> FALSE, resp |-> NoResp, pre |-> <<>>]

Snapshot ==
  [orders |-> orders, orderItems |-> orderItems, listings |-> listings, users |-> users]

\* const [order] = select from orders where id = $id limit 1
\* (loadOrder_unchecked: a missing row taken for a pending order.)
NoOrder == [buyerId |-> 0, status |-> "<none>", totalPrice |-> 0]
loadOrder_unchecked(id) ==
  IF id \in DOMAIN orders THEN orders[id]
  ELSE [buyerId |-> 0, status |-> "pending", totalPrice |-> 0]
loadOrder(id) == IF id \in DOMAIN orders THEN orders[id] ELSE NoOrder

\* numeric(10, 2): the column keeps two decimals and rounds half up.
numeric10_2(x) == ((x + 5) \div 10) * 10
\* total.toFixed(2). The doubles of the handler are within a fraction of a
\* cent of the exact sums, so the exact sum is rounded here.
toFixed2(x) == ((x + 5) \div 10) * 10

\* ---------------------------------------------------------- runMigrations
\* The two runners of the migrations: src/db/migrate.ts and its plain
\* JavaScript twin. An error of migrate() carries a code of its own, a code
\* on its cause (Drizzle wraps the errors of pg), both or none.
MAX_RETRIES == 10
Runners == {"migrate.ts", "migrate.mjs"}
NoErr == [code |-> Undefined, cause |-> Undefined]
Errors ==
  {[code |-> c, cause |-> k] :
     c \in {Undefined, "ENOTFOUND", "ECONNREFUSED", "ETIMEDOUT", "ECONNRESET", "42P07"},
     k \in {Undefined, "ECONNREFUSED"}}
NotRun ==
  [pc |-> "idle", runner |-> "", attempt |-> 0, pools |-> {}, err |-> NoErr,
   completion |-> ""]

\* const code = err.code ?? cause?.code  (migrate.ts); err.code (the twin)
errorCode(runner, err) ==
  IF runner = "migrate.ts" /\ err.code = Undefined THEN err.cause ELSE err.code

\* (isRetryable_always: every failure taken for a database not yet ready.)
isRetryable_always(code) == TRUE
isRetryable(code) ==
  \/ code = "ENOTFOUND"
  \/ code = "ECONNREFUSED"
  \/ code = "ETIMEDOUT"
  \/ code = "ECONNRESET"

\* runMigrations(): let attempt = 1
MIG_run(runner) ==
  /\ migration.pc = "idle"
  /\ migration' = [migration EXCEPT !.pc = "loop", !.runner = runner, !.attempt = 1]
  /\ UNCHANGED <<db, reqs, started>>

\* attempt <= MAX_RETRIES; const pool = new Pool(...)
MIG_newPool ==
  /\ migration.pc = "loop"
  /\ migration' =
       IF migration.attempt <= MAX_RETRIES
         THEN [migration EXCEPT !.pc = "migrate", !.pools = @ \cup {migration.attempt},
                                !.err = NoErr, !.completion = ""]
         ELSE [migration EXCEPT !.pc = "returned"]
  /\ UNCHANGED <<db, reqs, started>>

\* await migrate(db, ...) resolves: return, by way of the finally block
MIG_migrated ==
  /\ migration.pc = "migrate"
  /\ migration' = [migration EXCEPT !.pc = "finally", !.completion = "return"]
  /\ UNCHANGED <<db, reqs, started>>

\* await migrate(db, ...) rejects: the catch block either waits for the next
\* attempt or throws the error again
MIG_catch(err) ==
  /\ migration.pc = "migrate"
  /\ migration' =
       IF isRetryable(errorCode(migration.runner, err)) /\ migration.attempt < MAX_RETRIES
         THEN [migration EXCEPT !.pc = "delay", !.err = err]
         ELSE [migration EXCEPT !.pc = "finally", !.err = err, !.completion = "throw"]
  /\ UNCHANGED <<db, reqs, started>>

\* await new Promise((resolve) => setTimeout(resolve, RETRY_DELAY_MS))
MIG_delay ==
  /\ migration.pc = "delay"
  /\ migration' = [migration EXCEPT !.pc = "finally", !.completion = "continue"]
  /\ UNCHANGED <<db, reqs, started>>

\* finally { await pool.end().catch(() => {}) }, then what the try or the
\* catch block had decided: return, throw, or attempt++
MIG_finally ==
  /\ migration.pc = "finally"
  /\ migration' =
       [migration EXCEPT
          !.pools = @ \ {migration.attempt},
          !.pc = CASE migration.completion = "return" -> "returned"
                   [] migration.completion = "throw" -> "threw"
                   [] OTHER -> "loop",
          !.attempt = IF migration.completion = "continue" THEN @ + 1 ELSE @]
  /\ UNCHANGED <<db, reqs, started>>

Init ==
  /\ listings = [l \in ListingIds |->
                   [sellerId |-> ListingSeller[l], status |-> "active",
                    price |-> ListingPrice[l]]]
  /\ users = [u \in {a.sub : a \in SeedUsers} |->
                [role |-> (CHOOSE a \in SeedUsers : a.sub = u).role, email |-> u,
                 name |-> "seed"]]
  /\ nextUserId = Cardinality(SeedUsers) + 1
  /\ orders = <<>>
  /\ orderItems = {}
  /\ nextOrderId = 1
  /\ reviews = <<>>
  /\ migration = NotRun
  /\ reqs = [s \in Slots |-> IdleReq]
  /\ started = 0

\* ------------------------------------------------------- POST /api/orders
\* select from listings where id = $listingId and status = 'active' limit 1
NoListing == [sellerId |-> 0, status |-> "<none>", price |-> 0]
selectActive_anyStatus(listingId) ==
  IF listingId \in DOMAIN listings THEN listings[listingId] ELSE NoListing
selectActive(listingId) ==
  IF listingId \in DOMAIN listings /\ listings[listingId].status = "active"
    THEN listings[listingId]
    ELSE NoListing

\* const lineTotal = parseFloat(listing.price) * qty
\* (lineTotal_unitPrice: the quantity left out.)
lineTotal_unitPrice(listing, qty) == listing.price
lineTotal(listing, qty) == listing.price * qty

\* resolvedItems.push({ listingId, quantity: qty, price: String(parseFloat(listing.price)) })
\* (resolvedItem_lineTotal: the line total stored as the item's price.)
resolvedItem_lineTotal(item, listing) ==
  [listingId |-> item.listingId, quantity |-> item.quantity,
   price |-> listing.price * item.quantity]
resolvedItem(item, listing) ==
  [listingId |-> item.listingId, quantity |-> item.quantity, price |-> listing.price]

\* The rows the transaction inserts: the order, pending by the column's
\* default, and one order_items row per resolved item.
\* (newOrder_firstBuyer: the buyer id taken from a constant, not the token.)
newOrder_firstBuyer(payload, total) ==
  [buyerId |-> 4, status |-> "pending", totalPrice |-> toFixed2(total)]
newOrder(payload, total) ==
  [buyerId |-> payload.sub, status |-> "pending", totalPrice |-> toFixed2(total)]
newItems(orderId, resolvedItems) ==
  {[id |-> <<orderId, k>>, orderId |-> orderId,
    listingId |-> resolvedItems[k].listingId,
    quantity |-> resolvedItems[k].quantity,
    price |-> numeric10_2(resolvedItems[k].price)] : k \in DOMAIN resolvedItems}
insertOrder(table, orderId, row) ==
  [i \in DOMAIN table \cup {orderId} |-> IF i = orderId THEN row ELSE table[i]]

\* The loop over the items, run in one piece: the resolved items and total.
RECURSIVE resolveAll(_, _, _)
resolveAll(cart, k, acc) ==
  IF k > Len(cart) THEN acc
  ELSE LET listing == selectActive(cart[k].listingId) IN
       resolveAll(cart, k + 1,
         [items |-> Append(acc.items, resolvedItem(cart[k], listing)),
          total |-> acc.total + lineTotal(listing, cart[k].quantity)])

\* A buyer orders the listings of a cart, every one of them active: the
\* handler from its entry to the commit of its transaction, in one piece.
POST(buyer, cart) ==
  LET res == resolveAll(cart, 1, [items |-> <<>>, total |-> 0]) IN
  /\ nextOrderId <= MaxOrders
  /\ authorize({"buyer"}, buyer) = NoError
  /\ \A k \in DOMAIN cart : selectActive(cart[k].listingId) # NoListing
  /\ orders' = insertOrder(orders, nextOrderId, newOrder(buyer, res.total))
  /\ orderItems' = orderItems \cup newItems(nextOrderId, res.items)
  /\ nextOrderId' = nextOrderId + 1
  /\ UNCHANGED <<listings, reqs, started, reviews, accounts, migration>>

\* -------------------------------------------------- PUT /api/orders/[id]
Respond(r, resp) == [r EXCEPT !.pc = "done", !.resp = resp]
Goto(r, pc) == [r EXCEPT !.pc = pc]

\* From the entry of the handler to its first await after the order is
\* loaded: authenticate, authorize, parseId, select the order, parse and
\* validate the body, and the seller's checks on the loaded order.
PUT_begin(actor, rawId, body) ==
  LET id == parseId(rawId)
      r == [IdleReq EXCEPT !.op = "PUT /api/orders/[id]", !.payload = actor,
                           !.id = id, !.body = body, !.pre = Snapshot]
      order == loadOrder(id)
  IN  IF authenticate(actor) # NoError THEN Respond(r, catch(authenticate(actor)))
      ELSE IF authorize({"admin", "seller"}, actor) # NoError
        THEN Respond(r, catch(authorize({"admin", "seller"}, actor)))
      ELSE IF id = Null \/ id = 0 THEN Respond(r, jsonError("Invalid order id", 400))
      ELSE IF order = NoOrder THEN Respond(r, jsonError("Order not found", 404))
      ELSE IF body = "<malformed>" THEN Respond(r, catch(OtherError))
      ELSE IF body = "<notobject>" THEN Respond(r, jsonError("Invalid request body", 400))
      ELSE IF body \notin allowed THEN Respond(r, jsonError("status must be one of", 400))
      ELSE IF actor.role = "seller"
        THEN IF sellerCheck(body, order) # NoResp
               THEN Respond(r, sellerCheck(body, order))
               ELSE Goto(r, "selectItems")
      ELSE Goto(r, "updateOrder")

PUT(s, actor, rawId, body) ==
  /\ reqs[s].pc = "idle"
  /\ reqs' = [reqs EXCEPT ![s] = PUT_begin(actor, rawId, body)]
  /\ UNCHANGED <<db, migration>>

\* return jsonOk(...) / return jsonError(...): the response leaves the handler.
PUT_return(s) ==
  /\ reqs[s].pc = "done"
  /\ reqs' = [reqs EXCEPT ![s] = IdleReq]
  /\ UNCHANGED <<db, started, migration>>

\* select listingId from order_items where orderId = id   (before the write)
PUT_selectItems(s) ==
  LET r == reqs[s] IN
  /\ r.pc = "selectItems"
  /\ reqs' = [reqs EXCEPT ![s] =
       [Goto(r, "selectListings") EXCEPT
          !.items = {i.listingId : i \in {j \in orderItems : j.orderId = r.id}}]]
  /\ UNCHANGED <<db, started, migration>>

\* select id from listings where sellerId = payload.sub, then hasSellerItem
PUT_selectListings(s) ==
  LET r == reqs[s]
      sellerListingIds == {l \in DOMAIN listings : listings[l].sellerId = r.payload.sub}
  IN
  /\ r.pc = "selectListings"
  /\ reqs' = [reqs EXCEPT ![s] =
       IF ~hasSellerItem(r.items, sellerListingIds)
         THEN Respond(r, jsonError("Forbidden: this order does not contain your listings", 403))
         ELSE Goto(r, "updateOrder")]
  /\ UNCHANGED <<db, started, migration>>

\* update orders set status = $status where id = $id
PUT_updateOrder(s) ==
  LET r == reqs[s] IN
  /\ r.pc = "updateOrder"
  /\ orders' = [i \in DOMAIN orders |->
                  IF i = r.id THEN [orders[i] EXCEPT !.status = r.body] ELSE orders[i]]
  /\ reqs' = [reqs EXCEPT ![s] =
       IF sellerApproved(r.body, r.payload.role)
         THEN [Goto(r, "selectItemsToMark") EXCEPT !.wrote = TRUE]
         ELSE [Respond(r, jsonOk) EXCEPT !.wrote = TRUE]]
  /\ UNCHANGED <<listings, orderItems, nextOrderId, started, reviews, accounts, migration>>

\* select listingId from order_items where orderId = id   (after the write)
PUT_selectItemsToMark(s) ==
  LET r == reqs[s] IN
  /\ r.pc = "selectItemsToMark"
  /\ reqs' = [reqs EXCEPT ![s] =
       [Goto(r, "selectSellerOwned") EXCEPT
          !.items = {i.listingId : i \in {j \in orderItems : j.orderId = r.id}}]]
  /\ UNCHANGED <<db, started, migration>>

\* select id from listings where sellerId = payload.sub, then listingIdsToMark
PUT_selectSellerOwned(s) ==
  LET r == reqs[s]
      sellerListingIds == {l \in DOMAIN listings : listings[l].sellerId = r.payload.sub}
      toMark == listingIdsToMark(r.items, sellerListingIds)
  IN
  /\ r.pc = "selectSellerOwned"
  /\ reqs' = [reqs EXCEPT ![s] =
       IF toMark # {}
         THEN [Goto(r, "updateListings") EXCEPT
                 !.sellerListingIds = sellerListingIds,
                 !.listingIdsToMark = toMark]
         ELSE Respond(r, jsonOk)]
  /\ UNCHANGED <<db, started, migration>>

\* update listings set status = 'sold' where id in listingIdsToMark
PUT_updateListings(s) ==
  LET r == reqs[s] IN
  /\ r.pc = "updateListings"
  /\ listings' = markSold(listings, r.listingIdsToMark)
  /\ reqs' = [reqs EXCEPT ![s] = Respond(r, jsonOk)]
  /\ UNCHANGED <<orders, orderItems, nextOrderId, started, reviews, accounts, migration>>

\* A database call of a request in flight rejects: the handler's catch block
\* answers 500 and nothing the handler has written is taken back.
Awaiting == {"selectItems", "selectListings", "updateOrder",
             "selectItemsToMark", "selectSellerOwned", "updateListings"}
PUT_dbError(s) ==
  LET r == reqs[s] IN
  /\ r.pc \in Awaiting
  /\ reqs' = [reqs EXCEPT ![s] = Respond(r, catch(OtherError))]
  /\ UNCHANGED <<db, started, migration>>

PUT_step(s) ==
  \/ PUT_selectItems(s)
  \/ PUT_selectListings(s)
  \/ PUT_updateOrder(s)
  \/ PUT_selectItemsToMark(s)
  \/ PUT_selectSellerOwned(s)
  \/ PUT_updateListings(s)

\* ------------------------------------------- POST /api/orders, by its awaits
\* The checks of one item of the body before its listing is looked up.
validItem(item) ==
  IF item.listingId < 1 THEN jsonError("Each item must have a numeric listingId", 400)
  ELSE IF item.quantity < 1 THEN jsonError("quantity must be a positive integer", 400)
  ELSE NoResp

\* From the entry to the first select: authenticate, authorize("buyer"), the
\* body and its items array, the checks of the first item. (A body that is
\* no object is answered 400 as an empty items array is.)
POST_begin(actor, cart) ==
  LET r == [IdleReq EXCEPT !.op = "POST /api/orders", !.payload = actor,
                           !.cart = cart, !.k = 1, !.pre = Snapshot]
  IN  IF authenticate(actor) # NoError THEN Respond(r, catch(authenticate(actor)))
      ELSE IF authorize({"buyer"}, actor) # NoError
        THEN Respond(r, catch(authorize({"buyer"}, actor)))
      ELSE IF cart = <<>> THEN Respond(r, jsonError("items must be a non-empty array", 400))
      ELSE IF validItem(cart[1]) # NoResp THEN Respond(r, validItem(cart[1]))
      ELSE Goto(r, "selectActive")

POST_start(s, actor, cart) ==
  /\ reqs[s].pc = "idle"
  /\ reqs' = [reqs EXCEPT ![s] = POST_begin(actor, cart)]
  /\ UNCHANGED <<db, migration>>

\* The select of item k's listing, the 404 when it is missing or not active,
\* the line total and the resolved item, then the checks of the next item.
POST_selectActive(s) ==
  LET r == reqs[s]
      item == r.cart[r.k]
      listing == selectActive(item.listingId)
      more == [r EXCEPT !.k = r.k + 1,
                        !.resolvedItems = Append(r.resolvedItems, resolvedItem(item, listing)),
                        !.total = r.total + lineTotal(listing, item.quantity)]
  IN
  /\ r.pc = "selectActive"
  /\ reqs' = [reqs EXCEPT ![s] =
       IF listing = NoListing
         THEN Respond(r, jsonError("Listing not found or not active", 404))
       ELSE IF r.k = Len(r.cart) THEN Goto(more, "transaction")
       ELSE IF validItem(r.cart[r.k + 1]) # NoResp
         THEN Respond(more, validItem(r.cart[r.k + 1]))
       ELSE more]
  /\ UNCHANGED <<db, started, migration>>

\* A statement inside db.transaction throws: the transaction is rolled back,
\* the rows it had inserted are gone and the error reaches the catch block.
\* (rollback_keepInserted: the inserts made one by one, without a transaction.)
rollback_keepInserted(before, after) == after
rollback(before, after) == before

\* The foreign keys of the inserted rows: orders.buyer_id references users,
\* order_items.listing_id references listings.
buyerExists(payload) == payload.sub \in DOMAIN users
listingsExist(resolvedItems) ==
  \A k \in DOMAIN resolvedItems : resolvedItems[k].listingId \in DOMAIN listings

\* db.transaction: insert the order, insert its items, commit; 201. The
\* order insert fails when the buyer is gone, the items insert when a listing
\* is gone; the serial id drawn for the order is not given back.
POST_transaction(s) ==
  LET r == reqs[s]
      inserted == insertOrder(orders, nextOrderId, newOrder(r.payload, r.total))
  IN
  /\ r.pc = "transaction"
  /\ nextOrderId' = nextOrderId + 1
  /\ IF ~buyerExists(r.payload)
       THEN /\ reqs' = [reqs EXCEPT ![s] = Respond(r, catch(OtherError))]
            /\ UNCHANGED <<orders, orderItems>>
     ELSE IF ~listingsExist(r.resolvedItems)
       THEN /\ orders' = rollback(orders, inserted)
            /\ reqs' = [reqs EXCEPT ![s] = Respond(r, catch(OtherError))]
            /\ UNCHANGED orderItems
     ELSE /\ orders' = inserted
          /\ orderItems' = orderItems \cup newItems(nextOrderId, r.resolvedItems)
          /\ reqs' = [reqs EXCEPT ![s] =
               [Respond(r, jsonOkStatus(201)) EXCEPT !.id = nextOrderId, !.wrote = TRUE]]
  /\ UNCHANGED <<listings, started, reviews, accounts, migration>>

\* The insert of the items rejects after the order was inserted (the
\* connection drops, the statement times out).
POST_itemsError(s) ==
  LET r == reqs[s]
      inserted == insertOrder(orders, nextOrderId, newOrder(r.payload, r.total))
  IN
  /\ r.pc = "transaction"
  /\ buyerExists(r.payload)
  /\ nextOrderId' = nextOrderId + 1
  /\ orders' = rollback(orders, inserted)
  /\ reqs' = [reqs EXCEPT ![s] = Respond(r, catch(OtherError))]
  /\ UNCHANGED <<orderItems, listings, started, reviews, accounts, migration>>

POST_step(s) == POST_selectActive(s) \/ POST_transaction(s)

\* -------------------------------------------------- PUT /api/listings/[id]
\* Only the owner or an admin may update.
\* (mayUpdate_unlessSold: a sold listing closed to its owner as well.)
mayUpdate_unlessSold(payload, listing) ==
  payload.role = "admin" \/ (listing.sellerId = payload.sub /\ listing.status # "sold")
mayUpdate(payload, listing) ==
  payload.role = "admin" \/ listing.sellerId = payload.sub

\* The checks of the fields of the body that the model draws: price, status.
validUpdates(updates) ==
  IF updates.price # Null /\ updates.price < 0
    THEN jsonError("price must be a non-negative number", 400)
  ELSE IF updates.status # "" /\ updates.status \notin listingStatusEnum
    THEN jsonError("status must be one of: active, sold, removed", 400)
  ELSE IF updates = NoUpdates THEN jsonError("No updatable fields provided", 400)
  ELSE NoResp

\* update listings set ...updates where id = $id
\* (setUpdates_keepPrice: the price of the body dropped from the update.)
setUpdates_keepPrice(listing, updates) ==
  [listing EXCEPT
     !.status = IF updates.status = "" THEN @ ELSE updates.status]
setUpdates(listing, updates) ==
  [listing EXCEPT
     !.price = IF updates.price = Null THEN @ ELSE numeric10_2(updates.price),
     !.status = IF updates.status = "" THEN @ ELSE updates.status]

LPUT_begin(actor, rawId, updates) ==
  LET id == parseId(rawId)
      r == [IdleReq EXCEPT !.op = "PUT /api/listings/[id]", !.payload = actor,
                           !.id = id, !.updates = updates, !.pre = Snapshot]
  IN  IF authenticate(actor) # NoError THEN Respond(r, catch(authenticate(actor)))
      ELSE IF authorize({"seller", "admin"}, actor) # NoError
        THEN Respond(r, catch(authorize({"seller", "admin"}, actor)))
      ELSE IF id = Null \/ id = 0 THEN Respond(r, jsonError("Invalid listing id", 400))
      ELSE Goto(r, "selectListing")

LPUT_start(s, actor, rawId, updates) ==
  /\ reqs[s].pc = "idle"
  /\ reqs' = [reqs EXCEPT ![s] = LPUT_begin(actor, rawId, updates)]
  /\ UNCHANGED <<db, migration>>

\* select from listings where id = $id, the owner check, the body's checks
LPUT_selectListing(s) ==
  LET r == reqs[s]
      listing == IF r.id \in DOMAIN listings THEN listings[r.id] ELSE NoListing
  IN
  /\ r.pc = "selectListing"
  /\ reqs' = [reqs EXCEPT ![s] =
       IF listing = NoListing THEN Respond(r, jsonError("Listing not found", 404))
       ELSE IF ~mayUpdate(r.payload, listing) THEN Respond(r, jsonError("Forbidden", 403))
       ELSE IF validUpdates(r.updates) # NoResp THEN Respond(r, validUpdates(r.updates))
       ELSE Goto(r, "updateListing")]
  /\ UNCHANGED <<db, started, migration>>

LPUT_updateListing(s) ==
  LET r == reqs[s] IN
  /\ r.pc = "updateListing"
  /\ listings' = [listings EXCEPT ![r.id] = setUpdates(@, r.updates)]
  /\ reqs' = [reqs EXCEPT ![s] = [Respond(r, jsonOk) EXCEPT !.wrote = TRUE]]
  /\ UNCHANGED <<orders, orderItems, nextOrderId, started, reviews, accounts, migration>>

LPUT_step(s) == LPUT_selectListing(s) \/ LPUT_updateListing(s)

\* ----------------------------------------------- DELETE /api/orders/[id]
DELETE_begin(actor, rawId) ==
  LET id == parseId(rawId)
      r == [IdleReq EXCEPT !.op = "DELETE /api/orders/[id]", !.payload = actor,
                           !.id = id, !.pre = Snapshot]
  IN  IF authenticate(actor) # NoError THEN Respond(r, catch(authenticate(actor)))
      ELSE IF authorize({"admin"}, actor) # NoError
        THEN Respond(r, catch(authorize({"admin"}, actor)))
      ELSE IF id = Null \/ id = 0 THEN Respond(r, jsonError("Invalid order id", 400))
      ELSE Goto(r, "selectDoomed")

DELETE_start(s, actor, rawId) ==
  /\ reqs[s].pc = "idle"
  /\ reqs' = [reqs EXCEPT ![s] = DELETE_begin(actor, rawId)]
  /\ UNCHANGED <<db, migration>>

\* select from orders where id = $id limit 1
DELETE_selectOrder(s) ==
  LET r == reqs[s] IN
  /\ r.pc = "selectDoomed"
  /\ reqs' = [reqs EXCEPT ![s] =
       IF loadOrder(r.id) = NoOrder
         THEN Respond(r, jsonError("Order not found", 404))
         ELSE Goto(r, "deleteOrder")]
  /\ UNCHANGED <<db, started, migration>>

\* delete from orders where id = $id; order_items.order_id references
\* orders.id on delete cascade, so the rows of the order go with it.
\* (cascade_none: the items left behind.)
cascade_none(table, id) == table
cascade(table, id) == {i \in table : i.orderId # id}

DELETE_deleteOrder(s) ==
  LET r == reqs[s] IN
  /\ r.pc = "deleteOrder"
  /\ orders' = [i \in DOMAIN orders \ {r.id} |-> orders[i]]
  /\ orderItems' = cascade(orderItems, r.id)
  /\ reqs' = [reqs EXCEPT ![s] = [Respond(r, jsonOk) EXCEPT !.wrote = TRUE]]
  /\ UNCHANGED <<listings, nextOrderId, started, reviews, accounts, migration>>

DELETE_step(s) == DELETE_selectOrder(s) \/ DELETE_deleteOrder(s)

\* -------------------------------------------------- GET /api/orders/[id]
GET_begin(actor, rawId) ==
  LET id == parseId(rawId)
      r == [IdleReq EXCEPT !.op = "GET /api/orders/[id]", !.payload = actor,
                           !.id = id, !.pre = Snapshot]
  IN  IF authenticate(actor) # NoError THEN Respond(r, catch(authenticate(actor)))
      ELSE IF authorize({"buyer", "admin"}, actor) # NoError
        THEN Respond(r, catch(authorize({"buyer", "admin"}, actor)))
      ELSE IF id = Null \/ id = 0 THEN Respond(r, jsonError("Invalid order id", 400))
      ELSE Goto(r, "selectOrder")

GET_start(s, actor, rawId) ==
  /\ reqs[s].pc = "idle"
  /\ reqs' = [reqs EXCEPT ![s] = GET_begin(actor, rawId)]
  /\ UNCHANGED <<db, migration>>

\* if (payload.role !== "admin" && order.buyerId !== payload.sub) 403
\* (mayRead_anyBuyer: the comparison of the buyer ids left out.)
mayRead_anyBuyer(payload, order) == TRUE
mayRead(payload, order) == payload.role = "admin" \/ order.buyerId = payload.sub

GET_selectOrder(s) ==
  LET r == reqs[s]
      order == loadOrder(r.id)
  IN
  /\ r.pc = "selectOrder"
  /\ reqs' = [reqs EXCEPT ![s] =
       IF order = NoOrder THEN Respond(r, jsonError("Order not found", 404))
       ELSE IF ~mayRead(r.payload, order) THEN Respond(r, jsonError("Forbidden", 403))
       ELSE Goto(r, "selectOrderItems")]
  /\ UNCHANGED <<db, started, migration>>

\* select from order_items left join listings where orderId = $id
GET_selectItems(s) ==
  LET r == reqs[s] IN
  /\ r.pc = "selectOrderItems"
  /\ reqs' = [reqs EXCEPT ![s] =
       [Respond(r, jsonOk) EXCEPT !.data = {i \in orderItems : i.orderId = r.id}]]
  /\ UNCHANGED <<db, started, migration>>

GET_step(s) == GET_selectOrder(s) \/ GET_selectItems(s)

\* ------------------------------------------------------- GET /api/orders
LIST_begin(actor) ==
  LET r == [IdleReq EXCEPT !.op = "GET /api/orders", !.payload = actor,
                           !.pre = Snapshot]
  IN  IF authenticate(actor) # NoError THEN Respond(r, catch(authenticate(actor)))
      ELSE IF authorize({"buyer", "admin"}, actor) # NoError
        THEN Respond(r, catch(authorize({"buyer", "admin"}, actor)))
      ELSE Goto(r, "selectOrders")

LIST_start(s, actor) ==
  /\ reqs[s].pc = "idle"
  /\ reqs' = [reqs EXCEPT ![s] = LIST_begin(actor)]
  /\ UNCHANGED <<db, migration>>

\* .where(payload.role === "admin" ? undefined : eq(orders.buyerId, payload.sub))
\* (ownOrders_all: every caller served as the admin is.)
ownOrders_all(payload) == DOMAIN orders
ownOrders(payload) ==
  IF payload.role = "admin" THEN DOMAIN orders
  ELSE {i \in DOMAIN orders : orders[i].buyerId = payload.sub}

LIST_selectOrders(s) ==
  LET r == reqs[s] IN
  /\ r.pc = "selectOrders"
  /\ reqs' = [reqs EXCEPT ![s] =
       [Respond(r, jsonOk) EXCEPT
          !.data = {[id |-> i, buyerId |-> orders[i].buyerId] : i \in ownOrders(r.payload)}]]
  /\ UNCHANGED <<db, started, migration>>

\* ------------------------------------------------ GET /api/orders/seller
SELLER_begin(actor) ==
  LET r == [IdleReq EXCEPT !.op = "GET /api/orders/seller", !.payload = actor,
                           !.pre = Snapshot]
  IN  IF authenticate(actor) # NoError THEN Respond(r, catch(authenticate(actor)))
      ELSE IF authorize({"seller", "admin"}, actor) # NoError
        THEN Respond(r, catch(authorize({"seller", "admin"}, actor)))
      ELSE Goto(r, "sellerListings")

SELLER_start(s, actor) ==
  /\ reqs[s].pc = "idle"
  /\ reqs' = [reqs EXCEPT ![s] = SELLER_begin(actor)]
  /\ UNCHANGED <<db, migration>>

\* 1. select id from listings where sellerId = payload.sub
SELLER_selectListings(s) ==
  LET r == reqs[s]
      sellerListingIds == {l \in DOMAIN listings : listings[l].sellerId = r.payload.sub}
  IN
  /\ r.pc = "sellerListings"
  /\ reqs' = [reqs EXCEPT ![s] =
       IF sellerListingIds = {}
         THEN Respond(r, jsonOk)
         ELSE [Goto(r, "relevantOrderItems") EXCEPT !.sellerListingIds = sellerListingIds]]
  /\ UNCHANGED <<db, started, migration>>

\* 2. select from order_items inner join listings
\*    where order_items.listingId in sellerListingIds
\* (relevantOrderItems_ofOrders: every item of an order that has one of them.)
relevantOrderItems_ofOrders(sellerListingIds) ==
  {i \in orderItems :
     \E j \in orderItems : j.orderId = i.orderId /\ j.listingId \in sellerListingIds}
relevantOrderItems(sellerListingIds) ==
  {i \in orderItems : i.listingId \in sellerListingIds /\ i.listingId \in DOMAIN listings}

SELLER_selectItems(s) ==
  LET r == reqs[s]
      rows == relevantOrderItems(r.sellerListingIds)
  IN
  /\ r.pc = "relevantOrderItems"
  /\ reqs' = [reqs EXCEPT ![s] =
       IF rows = {} THEN Respond(r, jsonOk)
       ELSE [Goto(r, "orderRows") EXCEPT !.items = rows]]
  /\ UNCHANGED <<db, started, migration>>

\* 3. select from orders inner join users where orders.id in orderIds
\* 4. each order with its rows of relevantOrderItems
SELLER_selectOrders(s) ==
  LET r == reqs[s]
      orderIds == {i.orderId : i \in r.items}
      orderRows == orderIds \cap DOMAIN orders
  IN
  /\ r.pc = "orderRows"
  /\ reqs' = [reqs EXCEPT ![s] =
       [Respond(r, jsonOk) EXCEPT
          !.data = {[id |-> o, items |-> {i \in r.items : i.orderId = o}] : o \in orderRows}]]
  /\ UNCHANGED <<db, started, migration>>

SELLER_step(s) ==
  SELLER_selectListings(s) \/ SELLER_selectItems(s) \/ SELLER_selectOrders(s)

\* -------------------------------------------- POST /api/listings/[id]/reviews
REVIEW_begin(actor, rawId, rating) ==
  LET id == parseId(rawId)
      r == [IdleReq EXCEPT !.op = "POST /api/listings/[id]/reviews", !.payload = actor,
                           !.id = id, !.k = rating, !.pre = Snapshot]
  IN  IF authenticate(actor) # NoError THEN Respond(r, catch(authenticate(actor)))
      ELSE IF authorize({"buyer"}, actor) # NoError
        THEN Respond(r, catch(authorize({"buyer"}, actor)))
      ELSE IF id = Null \/ id = 0 THEN Respond(r, jsonError("Invalid listing id", 400))
      ELSE Goto(r, "selectReviewed")

REVIEW_start(s, actor, rawId, rating) ==
  /\ reqs[s].pc = "idle"
  /\ reqs' = [reqs EXCEPT ![s] = REVIEW_begin(actor, rawId, rating)]
  /\ UNCHANGED <<db, migration>>

\* select from listings where id = $listingId, then the body and the rating
REVIEW_selectListing(s) ==
  LET r == reqs[s] IN
  /\ r.pc = "selectReviewed"
  /\ reqs' = [reqs EXCEPT ![s] =
       IF r.id \notin DOMAIN listings THEN Respond(r, jsonError("Listing not found", 404))
       ELSE IF r.k < 1 \/ r.k > 5
         THEN Respond(r, jsonError("rating must be an integer between 1 and 5", 400))
       ELSE Goto(r, "selectExisting")]
  /\ UNCHANGED <<db, started, migration>>

\* select from reviews where reviewerId = payload.sub and listingId = $listingId
existingReview(payload, listingId) ==
  \E i \in DOMAIN reviews :
    reviews[i].reviewerId = payload.sub /\ reviews[i].listingId = listingId

REVIEW_selectExisting(s) ==
  LET r == reqs[s] IN
  /\ r.pc = "selectExisting"
  /\ reqs' = [reqs EXCEPT ![s] =
       IF existingReview(r.payload, r.id)
         THEN Respond(r, jsonError("You have already reviewed this listing", 409))
         ELSE Goto(r, "insertReview")]
  /\ UNCHANGED <<db, started, migration>>

\* insert into reviews: the table has a primary key on id and a check on the
\* rating, and no unique index on (reviewer_id, listing_id).
REVIEW_insert(s) ==
  LET r == reqs[s] IN
  /\ r.pc = "insertReview"
  /\ reviews' = Append(reviews,
       [reviewerId |-> r.payload.sub, listingId |-> r.id, rating |-> r.k])
  /\ reqs' = [reqs EXCEPT ![s] = [Respond(r, jsonOkStatus(201)) EXCEPT !.wrote = TRUE]]
  /\ UNCHANGED <<listings, orders, orderItems, nextOrderId, started, accounts, migration>>

REVIEW_step(s) ==
  REVIEW_selectListing(s) \/ REVIEW_selectExisting(s) \/ REVIEW_insert(s)

\* --------------------------------------------- authenticate, authorize
\* const payload = authenticate(request); authorize(...allowedRoles)(payload);
\* and the catch block every handler has around the two.
AUTH_call(authHeader, allowedRoles) ==
  LET a == authenticateRequest(authHeader)
      r == [IdleReq EXCEPT !.op = "authenticate / authorize", !.header = authHeader,
                           !.allowedRoles = allowedRoles, !.payload = a.payload,
                           !.pre = Snapshot]
  IN  IF a.error # NoError THEN Respond(r, catch(a.error))
      ELSE IF authorize(allowedRoles, a.payload) # NoError
        THEN Respond(r, catch(authorize(allowedRoles, a.payload)))
      ELSE Respond(r, jsonOk)

AUTH_start(s, authHeader, allowedRoles) ==
  /\ reqs[s].pc = "idle"
  /\ reqs' = [reqs EXCEPT ![s] = AUTH_call(authHeader, allowedRoles)]
  /\ UNCHANGED <<db, migration>>

\* -------------------------------------------------- POST /api/auth/register
\* const { email, password, name, role = "buyer" } = body
roleOrDefault(body) == IF body.role = Undefined THEN "buyer" ELSE body.role

\* if (role !== "buyer" && role !== "seller") 400
\* (registerRoles_enum: every role of the enum accepted.)
registerRoles_enum == {"buyer", "seller", "admin"}
registerRoles == {"buyer", "seller"}

REGISTER_begin(body) ==
  LET r == [IdleReq EXCEPT !.op = "POST /api/auth/register", !.json = body,
                           !.pre = Snapshot]
  IN  IF body.email = 0 THEN Respond(r, jsonError("email is required", 400))
      ELSE IF body.password = Undefined \/ body.password = "short"
        THEN Respond(r, jsonError("password is required and must be at least 8 characters", 400))
      ELSE IF body.name = Undefined THEN Respond(r, jsonError("name is required", 400))
      ELSE IF roleOrDefault(body) \notin registerRoles
        THEN Respond(r, jsonError("role must be 'buyer' or 'seller'", 400))
      ELSE Goto(r, "selectEmail")

REGISTER_start(s, body) ==
  /\ reqs[s].pc = "idle"
  /\ reqs' = [reqs EXCEPT ![s] = REGISTER_begin(body)]
  /\ UNCHANGED <<db, migration>>

\* select id from users where email = $email limit 1
emailTaken(email) == \E u \in DOMAIN users : users[u].email = email

REGISTER_selectEmail(s) ==
  LET r == reqs[s] IN
  /\ r.pc = "selectEmail"
  /\ reqs' = [reqs EXCEPT ![s] =
       IF emailTaken(r.json.email)
         THEN Respond(r, jsonError("An account with that email already exists", 409))
         ELSE Goto(r, "insertUser")]
  /\ UNCHANGED <<db, started, migration>>

\* insert into users (email, passwordHash, name, role); email is unique, so
\* the insert of an email taken in the meantime throws. Then signToken: the
\* token returned is for the new id and role.
REGISTER_insertUser(s) ==
  LET r == reqs[s]
      user == [role |-> roleOrDefault(r.json), email |-> r.json.email, name |-> r.json.name]
  IN
  /\ r.pc = "insertUser"
  /\ IF emailTaken(r.json.email)
       THEN /\ reqs' = [reqs EXCEPT ![s] = Respond(r, catch(OtherError))]
            /\ UNCHANGED accounts
       ELSE /\ users' = [u \in DOMAIN users \cup {nextUserId} |->
                           IF u = nextUserId THEN user ELSE users[u]]
            /\ nextUserId' = nextUserId + 1
            /\ reqs' = [reqs EXCEPT ![s] =
                 [Respond(r, jsonOkStatus(201)) EXCEPT
                    !.id = nextUserId, !.wrote = TRUE,
                    !.data = {[sub |-> nextUserId, role |-> user.role]}]]
  /\ UNCHANGED <<listings, orders, orderItems, nextOrderId, reviews, started, migration>>

REGISTER_step(s) == REGISTER_selectEmail(s) \/ REGISTER_insertUser(s)

\* ------------------------------------------------------ PUT /api/users/[id]
\* if (payload.role !== "admin" && payload.sub !== id) 403
adminOrSelf(payload, id) == payload.role = "admin" \/ payload.sub = id

\* if (role !== undefined) { if (payload.role !== "admin") 403 ... }
\* (mayChangeRole_self: the check for the admin left out.)
mayChangeRole_self(payload) == TRUE
mayChangeRole(payload) == payload.role = "admin"

\* The checks of the fields of the body that the model draws: name, role.
validUserUpdates(payload, body) ==
  IF body.name = "" THEN jsonError("name must be a non-empty string", 400)
  ELSE IF body.role # Undefined /\ ~mayChangeRole(payload)
    THEN jsonError("Only admins may change roles", 403)
  ELSE IF body.role # Undefined /\ body.role \notin {"buyer", "seller", "admin"}
    THEN jsonError("role must be one of: buyer, seller, admin", 400)
  ELSE IF body.name = Undefined /\ body.role = Undefined
    THEN jsonError("No updatable fields provided", 400)
  ELSE NoResp

setUserUpdates(user, body) ==
  [user EXCEPT !.name = IF body.name = Undefined THEN @ ELSE body.name,
               !.role = IF body.role = Undefined THEN @ ELSE body.role]

USERPUT_begin(actor, rawId, body) ==
  LET id == parseId(rawId)
      r == [IdleReq EXCEPT !.op = "PUT /api/users/[id]", !.payload = actor,
                           !.id = id, !.json = body, !.pre = Snapshot]
  IN  IF authenticate(actor) # NoError THEN Respond(r, catch(authenticate(actor)))
      ELSE IF id = Null \/ id = 0 THEN Respond(r, jsonError("Invalid user id", 400))
      ELSE IF ~adminOrSelf(actor, id) THEN Respond(r, jsonError("Forbidden", 403))
      ELSE Goto(r, "selectUser")

USERPUT_start(s, actor, rawId, body) ==
  /\ reqs[s].pc = "idle"
  /\ reqs' = [reqs EXCEPT ![s] = USERPUT_begin(actor, rawId, body)]
  /\ UNCHANGED <<db, migration>>

\* select from users where id = $id, then the body's checks
USERPUT_selectUser(s) ==
  LET r == reqs[s] IN
  /\ r.pc = "selectUser"
  /\ reqs' = [reqs EXCEPT ![s] =
       IF r.id \notin DOMAIN users THEN Respond(r, jsonError("User not found", 404))
       ELSE IF validUserUpdates(r.payload, r.json) # NoResp
         THEN Respond(r, validUserUpdates(r.payload, r.json))
       ELSE Goto(r, "updateUser")]
  /\ UNCHANGED <<db, started, migration>>

\* update users set ...updates where id = $id returning *; sanitizeUser of
\* no row throws.
USERPUT_updateUser(s) ==
  LET r == reqs[s] IN
  /\ r.pc = "updateUser"
  /\ IF r.id \in DOMAIN users
       THEN /\ users' = [users EXCEPT ![r.id] = setUserUpdates(@, r.json)]
            /\ reqs' = [reqs EXCEPT ![s] = [Respond(r, jsonOk) EXCEPT !.wrote = TRUE]]
       ELSE /\ reqs' = [reqs EXCEPT ![s] = Respond(r, catch(OtherError))]
            /\ UNCHANGED users
  /\ UNCHANGED <<nextUserId, listings, orders, orderItems, nextOrderId, reviews, started, migration>>

USERPUT_step(s) == USERPUT_selectUser(s) \/ USERPUT_updateUser(s)

\* --------------------------------------------------- DELETE /api/users/[id]
USERDELETE_begin(actor, rawId) ==
  LET id == parseId(rawId)
      r == [IdleReq EXCEPT !.op = "DELETE /api/users/[id]", !.payload = actor,
                           !.id = id, !.pre = Snapshot]
  IN  IF authenticate(actor) # NoError THEN Respond(r, catch(authenticate(actor)))
      ELSE IF actor.role # "admin" THEN Respond(r, jsonError("Forbidden", 403))
      ELSE IF id = Null \/ id = 0 THEN Respond(r, jsonError("Invalid user id", 400))
      ELSE Goto(r, "selectGone")

USERDELETE_start(s, actor, rawId) ==
  /\ reqs[s].pc = "idle"
  /\ reqs' = [reqs EXCEPT ![s] = USERDELETE_begin(actor, rawId)]
  /\ UNCHANGED <<db, migration>>

USERDELETE_selectUser(s) ==
  LET r == reqs[s] IN
  /\ r.pc = "selectGone"
  /\ reqs' = [reqs EXCEPT ![s] =
       IF r.id \notin DOMAIN users
         THEN Respond(r, jsonError("User not found", 404))
         ELSE Goto(r, "deleteUser")]
  /\ UNCHANGED <<db, started, migration>>

\* delete from users where id = $id. The user's listings, orders and reviews
\* go with it (on delete cascade), and so do the items of those orders and
\* the reviews of those listings; an item of somebody else's order that
\* references one of the listings stops the statement (on delete restrict).
\* A user who has ordered one of their own listings does not occur here.
USERDELETE_deleteUser(s) ==
  LET r == reqs[s]
      gone == {l \in DOMAIN listings : listings[l].sellerId = r.id}
      dead == {o \in DOMAIN orders : orders[o].buyerId = r.id}
      keep == SelectSeq(reviews,
                LAMBDA rv : rv.reviewerId # r.id /\ rv.listingId \notin gone)
  IN
  /\ r.pc = "deleteUser"
  /\ IF \E i \in orderItems : i.listingId \in gone
       THEN /\ reqs' = [reqs EXCEPT ![s] = Respond(r, catch(OtherError))]
            /\ UNCHANGED <<users, listings, orders, orderItems, reviews>>
       ELSE /\ users' = [u \in DOMAIN users \ {r.id} |-> users[u]]
            /\ listings' = [l \in DOMAIN listings \ gone |-> listings[l]]
            /\ orders' = [o \in DOMAIN orders \ dead |-> orders[o]]
            /\ orderItems' = {i \in orderItems : i.orderId \notin dead}
            /\ reviews' = keep
            /\ reqs' = [reqs EXCEPT ![s] = [Respond(r, jsonOk) EXCEPT !.wrote = TRUE]]
  /\ UNCHANGED <<nextUserId, nextOrderId, started, migration>>

USERDELETE_step(s) == USERDELETE_selectUser(s) \/ USERDELETE_deleteUser(s)

\* ----------------------------------------------- DELETE /api/listings/[id]
\* Only the owner or an admin may delete.
\* (mayDelete_anySeller: the comparison with the listing's seller left out.)
mayDelete_anySeller(payload, listing) == TRUE
mayDelete(payload, listing) ==
  payload.role = "admin" \/ listing.sellerId = payload.sub

LDELETE_begin(actor, rawId) ==
  LET id == parseId(rawId)
      r == [IdleReq EXCEPT !.op = "DELETE /api/listings/[id]", !.payload = actor,
                           !.id = id, !.pre = Snapshot]
  IN  IF authenticate(actor) # NoError THEN Respond(r, catch(authenticate(actor)))
      ELSE IF authorize({"seller", "admin"}, actor) # NoError
        THEN Respond(r, catch(authorize({"seller", "admin"}, actor)))
      ELSE IF id = Null \/ id = 0 THEN Respond(r, jsonError("Invalid listing id", 400))
      ELSE Goto(r, "selectDeleted")

LDELETE_start(s, actor, rawId) ==
  /\ reqs[s].pc = "idle"
  /\ reqs' = [reqs EXCEPT ![s] = LDELETE_begin(actor, rawId)]
  /\ UNCHANGED <<db, migration>>

LDELETE_selectListing(s) ==
  LET r == reqs[s]
      listing == IF r.id \in DOMAIN listings THEN listings[r.id] ELSE NoListing
  IN
  /\ r.pc = "selectDeleted"
  /\ reqs' = [reqs EXCEPT ![s] =
       IF listing = NoListing THEN Respond(r, jsonError("Listing not found", 404))
       ELSE IF ~mayDelete(r.payload, listing) THEN Respond(r, jsonError("Forbidden", 403))
       ELSE Goto(r, "deleteListing")]
  /\ UNCHANGED <<db, started, migration>>

\* delete from listings where id = $id: stopped by an order item of the
\* listing (on delete restrict); the reviews of the listing go with it.
LDELETE_deleteListing(s) ==
  LET r == reqs[s] IN
  /\ r.pc = "deleteListing"
  /\ IF \E i \in orderItems : i.listingId = r.id
       THEN /\ reqs' = [reqs EXCEPT ![s] = Respond(r, catch(OtherError))]
            /\ UNCHANGED <<listings, reviews>>
       ELSE /\ listings' = [l \in DOMAIN listings \ {r.id} |-> listings[l]]
            /\ reviews' = SelectSeq(reviews, LAMBDA rv : rv.listingId # r.id)
            /\ reqs' = [reqs EXCEPT ![s] = [Respond(r, jsonOk) EXCEPT !.wrote = TRUE]]
  /\ UNCHANGED <<accounts, orders, orderItems, nextOrderId, started, migration>>

LDELETE_step(s) == LDELETE_selectListing(s) \/ LDELETE_deleteListing(s)

\* -------------------------------------------------- GET /api/listings/[id]
LGET_begin(actor, rawId) ==
  LET id == parseId(rawId)
      r == [IdleReq EXCEPT !.op = "GET /api/listings/[id]", !.payload = actor,
                           !.id = id, !.pre = Snapshot]
  IN  IF id = Null \/ id = 0 THEN Respond(r, jsonError("Invalid listing id", 400))
      ELSE Goto(r, "selectShown")

LGET_start(s, actor, rawId) ==
  /\ reqs[s].pc = "idle"
  /\ reqs' = [reqs EXCEPT ![s] = LGET_begin(actor, rawId)]
  /\ UNCHANGED <<db, migration>>

\* try { payload = authenticate(request);
\*       if (payload.role === "admin" || payload.sub === listing.sellerId) ... }
\* catch { }
\* (isOwnerOrAdmin_anyToken: whoever has a token taken for the owner.)
isOwnerOrAdmin_anyToken(actor, listing) == authenticate(actor) = NoError
isOwnerOrAdmin(actor, listing) ==
  /\ authenticate(actor) = NoError
  /\ actor.role = "admin" \/ actor.sub = listing.sellerId

\* select from listings left join users left join categories where id = $id;
\* only active listings are publicly visible
LGET_selectListing(s) ==
  LET r == reqs[s]
      listing == IF r.id \in DOMAIN listings THEN listings[r.id] ELSE NoListing
  IN
  /\ r.pc = "selectShown"
  /\ reqs' = [reqs EXCEPT ![s] =
       IF listing = NoListing
         THEN Respond(r, jsonError("Invalid listing id ,Listing not found", 404))
       ELSE IF listing.status # "active" /\ ~isOwnerOrAdmin(r.payload, listing)
         THEN Respond(r, jsonError("Listing not found", 404))
       ELSE [Respond(r, jsonOk) EXCEPT !.data = {[id |-> r.id] @@ listing}]]
  /\ UNCHANGED <<db, started, migration>>

\* ---------------------------------------------------------- specifications
\* A computed response is returned before anything else happens: returning
\* touches no table, so no interleaving of database calls is lost.
NoneDone == \A s \in Slots : reqs[s].pc # "done"
Quiet == \A s \in Slots : reqs[s].pc = "idle"

\* Spec: requests of several clients in flight together, interleaved at
\* their awaits; database calls may fail.
StartPOST == NoneDone /\ \E b \in Shoppers, cart \in Carts : POST(b, cart)
StartPUT ==
  \E s \in Slots, actor \in Actors, rawId \in RawIds, body \in Bodies :
    /\ NoneDone
    /\ started < MaxRequests
    /\ started' = started + 1
    /\ PUT(s, actor, rawId, body)
StepPUT == NoneDone /\ \E s \in Slots : PUT_step(s)
FailPUT == NoneDone /\ \E s \in Slots : PUT_dbError(s)
ReturnPUT == \E s \in Slots : PUT_return(s)

Next == StartPOST \/ StartPUT \/ StepPUT \/ FailPUT \/ ReturnPUT
Spec == Init /\ [][Next]_vars

\* SpecSerial: one request at a time, each run to its response before the
\* next starts; the database answers every call.
SerialPOST == Quiet /\ \E b \in Shoppers, cart \in Carts : POST(b, cart)
SerialPUT ==
  \E actor \in Actors, rawId \in RawIds, body \in Bodies :
    PUT(1, actor, rawId, body) /\ UNCHANGED <<started, migration>>
SerialStep == PUT_step(1)
SerialReturn == PUT_return(1)

NextSerial == SerialPOST \/ SerialPUT \/ SerialStep \/ SerialReturn
SpecSerial == Init /\ [][NextSerial]_vars

\* SpecMarket: orders are placed, decided and reset while sellers change
\* their listings; one request at a time, the database answers every call.
\* The carts add one with a listing that does not exist and one with a
\* quantity of zero; the new price has a third decimal; a seller sends
\* approved, the admin sends pending as well.
MarketBuyers == {Buyer1, Buyer2, SellerA}
MarketCarts == Carts \cup {<<Item(3, 1), Item(4, 1)>>, <<Item(1, 0)>>}
MarketDeciders == {Admin, SellerA}
MarketBodies == {"approved", "pending"}
MarketOwners == {Admin, SellerA, SellerB}
MarketUpdates == {[price |-> 705, status |-> ""], [price |-> -10, status |-> ""],
                  [price |-> Null, status |-> "removed"]}
MarketPOST ==
  \E actor \in MarketBuyers, cart \in MarketCarts :
    /\ nextOrderId <= MaxOrders
    /\ POST_start(1, actor, cart)
    /\ UNCHANGED <<started, migration>>
MarketPUT ==
  \E actor \in MarketDeciders, body \in MarketBodies :
    PUT(1, actor, "1", body) /\ UNCHANGED <<started, migration>>
MarketListingPUT ==
  \E actor \in MarketOwners, rawId \in {"1", "4"}, updates \in MarketUpdates :
    LPUT_start(1, actor, rawId, updates) /\ UNCHANGED <<started, migration>>
MarketStep == POST_step(1) \/ PUT_step(1) \/ LPUT_step(1)
MarketReturn == PUT_return(1)

NextMarket == MarketPOST \/ MarketPUT \/ MarketListingPUT \/ MarketStep \/ MarketReturn
SpecMarket == Init /\ [][NextMarket]_vars

\* SpecOffice: two buyers place orders, the admin deletes orders, and
\* everybody reads: one order, the own orders, the orders of a seller. One
\* request at a time; one order more than the other specifications allow.
OfficeBuyers == {Buyer1, Buyer2}
OfficeReaders == {Admin, SellerA, SellerB, Buyer1, Buyer2}
OfficeIds == {ToString(n) : n \in 1 .. (MaxOrders + 1)}
OfficePOST ==
  \E actor \in OfficeBuyers, cart \in Carts :
    /\ nextOrderId <= MaxOrders + 1
    /\ POST_start(1, actor, cart)
    /\ UNCHANGED <<started, migration>>
OfficeDELETE ==
  \E actor \in OfficeReaders, rawId \in OfficeIds :
    DELETE_start(1, actor, rawId) /\ UNCHANGED <<started, migration>>
OfficeGET ==
  \E actor \in OfficeReaders, rawId \in OfficeIds :
    GET_start(1, actor, rawId) /\ UNCHANGED <<started, migration>>
OfficeLIST == \E actor \in OfficeReaders : LIST_start(1, actor) /\ UNCHANGED <<started, migration>>
OfficeSELLER == \E actor \in OfficeReaders : SELLER_start(1, actor) /\ UNCHANGED <<started, migration>>
OfficeStep ==
  POST_step(1) \/ DELETE_step(1) \/ GET_step(1) \/ LIST_selectOrders(1) \/ SELLER_step(1)
OfficeReturn == PUT_return(1)

NextOffice ==
  \/ OfficePOST \/ OfficeDELETE \/ OfficeGET \/ OfficeLIST \/ OfficeSELLER
  \/ OfficeStep \/ OfficeReturn
SpecOffice == Init /\ [][NextOffice]_vars

\* SpecLater: the two sellers approve and reject the first order of a buyer;
\* requests in flight together, interleaved at their awaits; database calls
\* may fail.
LaterPUT ==
  \E s \in Slots, actor \in {SellerA, SellerB}, body \in sellerAllowed :
    /\ NoneDone
    /\ started < MaxRequests
    /\ started' = started + 1
    /\ PUT(s, actor, "1", body)

NextLater == StartPOST \/ LaterPUT \/ StepPUT \/ FailPUT \/ ReturnPUT
SpecLater == Init /\ [][NextLater]_vars

\* SpecReviews: review requests of several clients in flight together,
\* interleaved at their awaits.
Reviewers == {Buyer1, Buyer2, SellerA}
Ratings == {0, 5}
StartREVIEW ==
  \E s \in Slots, actor \in Reviewers, rawId \in {"1", "4"}, rating \in Ratings :
    /\ NoneDone
    /\ started < MaxRequests
    /\ started' = started + 1
    /\ REVIEW_start(s, actor, rawId, rating)
StepREVIEW == NoneDone /\ \E s \in Slots : REVIEW_step(s)
ReturnREVIEW == \E s \in Slots : PUT_return(s)

NextReviews == StartREVIEW \/ StepREVIEW \/ ReturnREVIEW
SpecReviews == Init /\ [][NextReviews]_vars

\* SpecAuth: the two middleware functions on every header of a bounded set:
\* no header, four schemes, tokens for three users signed with the secret
\* or with another key, fresh or expired, and text that is no token.
Schemes == {"Bearer ", "bearer ", "Basic ", "Bearer"}
Tokens ==
  {Token(p, key, e) : p \in {Admin, SellerA, Buyer1},
                      key \in {JWT_SECRET, "another key"}, e \in BOOLEAN}
    \cup {NotAJwt}
Headers == {NoHeader} \cup {Header(sch, t) : sch \in Schemes, t \in Tokens}
RoleSets == {{"buyer"}, {"admin"}, {"admin", "seller"}, {"buyer", "admin"}}
AuthCall ==
  \E authHeader \in Headers, allowedRoles \in RoleSets :
    AUTH_start(1, authHeader, allowedRoles) /\ UNCHANGED <<started, migration>>
AuthReturn == PUT_return(1)

NextAuth == AuthCall \/ AuthReturn
SpecAuth == Init /\ [][NextAuth]_vars

\* SpecUsers: accounts are registered and users are changed and deleted, by
\* the admin, by users for themselves and for others, and by a user who has
\* registered in the run; one request at a time.
RegisterBodies ==
  {[email |-> e, password |-> pw, name |-> "Ann", role |-> ro] :
     e \in {4, 6}, pw \in {"password123", "short"},
     ro \in {Undefined, "seller", "admin"}}
UserBodies ==
  {[NoBody EXCEPT !.name = n, !.role = ro] :
     n \in {Undefined, "Bob"}, ro \in {Undefined, "admin", "root"}}
\* Who sends the requests: the admin, seller A, buyer 1, nobody, and whoever
\* has registered, with the token of the registration.
Registered ==
  {[sub |-> u, role |-> users[u].role] : u \in DOMAIN users \ {a.sub : a \in SeedUsers}}
UserActors == {Admin, SellerA, Buyer1, NoToken} \cup Registered
UserIds == {"2", "4", "6"}
UsersREGISTER ==
  \E body \in RegisterBodies :
    /\ nextUserId <= Cardinality(SeedUsers) + MaxRegistrations
    /\ REGISTER_start(1, body)
    /\ UNCHANGED <<started, migration>>
UsersPUT ==
  \E actor \in UserActors, rawId \in UserIds, body \in UserBodies :
    USERPUT_start(1, actor, rawId, body) /\ UNCHANGED <<started, migration>>
UsersDELETE ==
  \E actor \in UserActors, rawId \in UserIds :
    USERDELETE_start(1, actor, rawId) /\ UNCHANGED <<started, migration>>
UsersStep == REGISTER_step(1) \/ USERPUT_step(1) \/ USERDELETE_step(1)
UsersReturn == PUT_return(1)

NextUsers == UsersREGISTER \/ UsersPUT \/ UsersDELETE \/ UsersStep \/ UsersReturn
SpecUsers == Init /\ [][NextUsers]_vars

\* SpecListings: listings are changed, deleted and looked at by everybody,
\* while buyer 1 orders; one request at a time.
ListingActors == {Admin, SellerA, SellerB, Buyer1, NoToken}
ListingRawIds == {"1", "2", "4"}
ListingUpdates == {[price |-> 705, status |-> ""], [price |-> Null, status |-> "sold"],
                   [price |-> Null, status |-> "removed"]}
ListingsPOST ==
  \E cart \in Carts :
    /\ nextOrderId <= MaxOrders
    /\ POST_start(1, Buyer1, cart)
    /\ UNCHANGED <<started, migration>>
ListingsPUT ==
  \E actor \in ListingActors, rawId \in ListingRawIds, updates \in ListingUpdates :
    LPUT_start(1, actor, rawId, updates) /\ UNCHANGED <<started, migration>>
ListingsDELETE ==
  \E actor \in ListingActors, rawId \in ListingRawIds :
    LDELETE_start(1, actor, rawId) /\ UNCHANGED <<started, migration>>
ListingsGET ==
  \E actor \in ListingActors, rawId \in ListingRawIds :
    LGET_start(1, actor, rawId) /\ UNCHANGED <<started, migration>>
ListingsStep ==
  POST_step(1) \/ LPUT_step(1) \/ LDELETE_step(1) \/ LGET_selectListing(1)
ListingsReturn == PUT_return(1)

NextListings ==
  \/ ListingsPOST \/ ListingsPUT \/ ListingsDELETE \/ ListingsGET
  \/ ListingsStep \/ ListingsReturn
SpecListings == Init /\ [][NextListings]_vars

\* SpecRepeat: two buyers order, also the same listing one after the other,
\* and the sellers decide the orders; one request at a time, one order more
\* than MaxOrders.
RepeatPOST ==
  \E actor \in OfficeBuyers, cart \in Carts :
    /\ nextOrderId <= MaxOrders + 1
    /\ POST_start(1, actor, cart)
    /\ UNCHANGED <<started, migration>>
RepeatPUT ==
  \E actor \in {SellerA, SellerB}, rawId \in OfficeIds, body \in sellerAllowed :
    PUT(1, actor, rawId, body) /\ UNCHANGED <<started, migration>>
RepeatStep == POST_step(1) \/ PUT_step(1)
RepeatReturn == PUT_return(1)

NextRepeat == RepeatPOST \/ RepeatPUT \/ RepeatStep \/ RepeatReturn
SpecRepeat == Init /\ [][NextRepeat]_vars

\* SpecRace: orders are placed while sellers approve orders and take their
\* listings off the market; requests of several clients in flight together,
\* interleaved at their awaits; the database answers every call.
RaceUpdates == {[price |-> Null, status |-> "removed"]}
RacePOST ==
  \E s \in Slots, cart \in Carts :
    /\ NoneDone
    /\ started < MaxRequests + 1
    /\ started' = started + 1
    /\ nextOrderId <= MaxOrders
    /\ POST_start(s, Buyer1, cart)
RacePUT ==
  \E s \in Slots, actor \in {SellerA, SellerB}, rawId \in OfficeIds :
    /\ NoneDone
    /\ started < MaxRequests + 1
    /\ started' = started + 1
    /\ PUT(s, actor, rawId, "approved")
RaceListingPUT ==
  \E s \in Slots, actor \in {SellerA, SellerB}, rawId \in {"1", "3"},
     updates \in RaceUpdates :
    /\ NoneDone
    /\ started < MaxRequests + 1
    /\ started' = started + 1
    /\ LPUT_start(s, actor, rawId, updates)
RaceStep == NoneDone /\ \E s \in Slots : POST_step(s) \/ PUT_step(s) \/ LPUT_step(s)
RaceReturn == \E s \in Slots : PUT_return(s)

NextRace == RacePOST \/ RacePUT \/ RaceListingPUT \/ RaceStep \/ RaceReturn
SpecRace == Init /\ [][NextRace]_vars

\* SpecLedger: two buyers place orders while the admin deletes orders and
\* accounts and sellers delete listings; requests in flight together,
\* interleaved at their awaits; the insert of the items may fail.
LedgerPOST ==
  \E s \in Slots, actor \in OfficeBuyers, cart \in Carts :
    /\ NoneDone
    /\ started < MaxRequests
    /\ started' = started + 1
    /\ nextOrderId <= MaxOrders
    /\ POST_start(s, actor, cart)
LedgerDELETE ==
  \E s \in Slots, rawId \in OfficeIds :
    /\ NoneDone
    /\ started < MaxRequests
    /\ started' = started + 1
    /\ DELETE_start(s, Admin, rawId)
LedgerListingDELETE ==
  \E s \in Slots, actor \in {SellerB, Admin}, rawId \in {"1", "3"} :
    /\ NoneDone
    /\ started < MaxRequests
    /\ started' = started + 1
    /\ LDELETE_start(s, actor, rawId)
LedgerUserDELETE ==
  \E s \in Slots, rawId \in {"3", "4"} :
    /\ NoneDone
    /\ started < MaxRequests
    /\ started' = started + 1
    /\ USERDELETE_start(s, Admin, rawId)
LedgerStep ==
  /\ NoneDone
  /\ \E s \in Slots :
       POST_step(s) \/ DELETE_step(s) \/ LDELETE_step(s) \/ USERDELETE_step(s)
LedgerFail == NoneDone /\ \E s \in Slots : POST_itemsError(s)
LedgerReturn == \E s \in Slots : PUT_return(s)

NextLedger ==
  \/ LedgerPOST \/ LedgerDELETE \/ LedgerListingDELETE \/ LedgerUserDELETE
  \/ LedgerStep \/ LedgerFail \/ LedgerReturn
SpecLedger == Init /\ [][NextLedger]_vars

\* SpecTenure: the admin changes roles and deletes accounts while the tokens
\* signed before stay in use: buyer 1 orders, seller A and the admin approve.
\* One request at a time, the database answers every call.
TenureBodies == {[NoBody EXCEPT !.role = ro] : ro \in {"buyer", "seller"}}
TenurePOST ==
  \E cart \in Carts :
    /\ nextOrderId <= MaxOrders
    /\ POST_start(1, Buyer1, cart)
    /\ UNCHANGED <<started, migration>>
TenurePUT ==
  \E actor \in {Admin, SellerA}, rawId \in RawIds :
    PUT(1, actor, rawId, "approved") /\ UNCHANGED <<started, migration>>
TenureUserPUT ==
  \E rawId \in {"1", "2"}, body \in TenureBodies :
    USERPUT_start(1, Admin, rawId, body) /\ UNCHANGED <<started, migration>>
TenureUserDELETE ==
  \E rawId \in {"1", "2"} :
    USERDELETE_start(1, Admin, rawId) /\ UNCHANGED <<started, migration>>
TenureStep == POST_step(1) \/ PUT_step(1) \/ USERPUT_step(1) \/ USERDELETE_step(1)
TenureReturn == PUT_return(1)

NextTenure ==
  \/ TenurePOST \/ TenurePUT \/ TenureUserPUT \/ TenureUserDELETE
  \/ TenureStep \/ TenureReturn
SpecTenure == Init /\ [][NextTenure]_vars

\* SpecMigrate: one run of the migrations at the start of a deployment.
\* FairMigrate: every promise the runner awaits settles.
MigrateRun == \E runner \in Runners : MIG_run(runner)
MigrateCatch == \E err \in Errors \ {NoErr} : MIG_catch(err)
NextMigrate ==
  MigrateRun \/ MIG_newPool \/ MIG_migrated \/ MigrateCatch \/ MIG_delay \/ MIG_finally
SpecMigrate == Init /\ [][NextMigrate]_vars
FairMigrate == SpecMigrate /\ WF_vars(NextMigrate)

\* ------------------------------------------------------------- properties
\* The failure kinds of the transition authority, as the handler answers them.
NotFound(resp) == resp.status = 404 /\ resp.error = "Order not found"
Forbidden(resp) == resp.status = 403
InvalidTransition(resp) ==
  resp.status = 400 /\ resp.error = "Only pending orders can be approved or rejected"
ValidationError(resp) ==
  resp.status = 400 /\ resp.error \in
    {"status must be one of", "Invalid request body", "Invalid order id"}

\* The listings an order's items reference, in a given order_items table.
ItemListings(items, id) == {i.listingId : i \in {j \in items : j.orderId = id}}
SellerOf(l) == ListingSeller[l]
\* A request that has its response, and whether the tables are as it found them.
Answered(r) == r.pc = "done"
Untouched(r) == r.pre = Snapshot
Existed(r) == r.id \in DOMAIN r.pre.orders

\* C1: a successful approval by a seller of a pending order (a multi-seller
\* order included) leaves the order approved, has set to sold exactly the
\* listings that the order's items reference and that the seller owns, and
\* has left every other listing's status as it was.
C1_ApprovalSellsOwnItemsOnly ==
  \A s \in Slots :
    LET r == reqs[s] IN
    (Answered(r) /\ r.payload.role = "seller" /\ r.body = "approved"
       /\ r.resp.status = 200)
    => /\ r.pre.orders[r.id].status = "pending"
       /\ orders[r.id].status = "approved"
       /\ \A l \in ListingIds :
            listings[l].status =
              IF l \in ItemListings(r.pre.orderItems, r.id) /\ SellerOf(l) = r.payload.sub
                THEN "sold"
                ELSE r.pre.listings[l].status

\* Seller A has approved an order with an item of A and an item of B: A's
\* item went from active to sold, B's item and A's other listing are active.
C1_Witness ==
  \E s \in Slots :
    LET r == reqs[s] IN
    /\ Answered(r) /\ r.payload = SellerA /\ r.body = "approved" /\ r.resp.status = 200
    /\ ItemListings(orderItems, r.id) = {1, 2}
    /\ r.pre.listings[1].status = "active" /\ listings[1].status = "sold"
    /\ listings[2].status = "active" /\ listings[3].status = "active"

\* C2 (as claimed): on an order that is not pending, a seller's transition to
\* any status of the enum fails with InvalidTransition and leaves the status.
C2_AnyStatusIsInvalidTransition ==
  \A s \in Slots :
    LET r == reqs[s] IN
    (Answered(r) /\ r.payload.role = "seller" /\ Existed(r)
       /\ r.pre.orders[r.id].status # "pending" /\ r.body \in orderStatusEnum)
    => InvalidTransition(r.resp) /\ orders[r.id].status = r.pre.orders[r.id].status

\* C2 (amended): on an order that is not pending, a seller's transition to
\* approved or rejected fails with InvalidTransition (400), one to any other
\* status of the enum fails with Forbidden (403), and either way the order
\* keeps its status.
C2_NonPendingSellerFails ==
  \A s \in Slots :
    LET r == reqs[s] IN
    (Answered(r) /\ r.payload.role = "seller" /\ Existed(r)
       /\ r.pre.orders[r.id].status # "pending" /\ r.body \in orderStatusEnum)
    => /\ r.body \in {"approved", "rejected"} => InvalidTransition(r.resp)
       /\ r.body \notin {"approved", "rejected"} => Forbidden(r.resp)
       /\ orders[r.id].status = r.pre.orders[r.id].status

\* A seller who owns an item of a completed order asked to approve it and
\* got InvalidTransition.
C2_Witness ==
  \E s \in Slots :
    LET r == reqs[s] IN
    /\ Answered(r) /\ r.payload.role = "seller" /\ Existed(r)
    /\ r.pre.orders[r.id].status = "completed" /\ r.body = "approved"
    /\ \E l \in ItemListings(orderItems, r.id) : SellerOf(l) = r.payload.sub
    /\ InvalidTransition(r.resp)

\* C3 (as claimed): a seller who owns none of the listings of an order's
\* items gets Forbidden for every status of the enum, in every order state.
C3_NoStakeAlwaysForbidden ==
  \A s \in Slots :
    LET r == reqs[s] IN
    (Answered(r) /\ r.payload.role = "seller" /\ Existed(r)
       /\ r.body \in orderStatusEnum
       /\ \A l \in ItemListings(r.pre.orderItems, r.id) : SellerOf(l) # r.payload.sub)
    => Forbidden(r.resp) /\ Untouched(r)

\* C3 (amended): a seller who owns none of the listings of an order's items
\* fails with every status of the enum and changes nothing: with
\* InvalidTransition (400) when the order is not pending and the request is
\* approved or rejected, with Forbidden (403) in every other case.
C3_NoStakeAlwaysFails ==
  \A s \in Slots :
    LET r == reqs[s] IN
    (Answered(r) /\ r.payload.role = "seller" /\ Existed(r)
       /\ r.body \in orderStatusEnum
       /\ \A l \in ItemListings(r.pre.orderItems, r.id) : SellerOf(l) # r.payload.sub)
    => /\ Untouched(r)
       /\ IF r.pre.orders[r.id].status # "pending" /\ r.body \in {"approved", "rejected"}
            THEN InvalidTransition(r.resp)
            ELSE Forbidden(r.resp)

\* Seller B asked to approve a pending order whose only item is a listing of
\* seller A, and got 403 after the ownership lookup.
C3_Witness ==
  \E s \in Slots :
    LET r == reqs[s] IN
    /\ Answered(r) /\ r.payload = SellerB /\ Existed(r) /\ r.body = "approved"
    /\ r.pre.orders[r.id].status = "pending"
    /\ ItemListings(orderItems, r.id) = {3}
    /\ r.resp = jsonError("Forbidden: this order does not contain your listings", 403)

\* C4 (as claimed): a seller's approval is atomic: in no state has a
\* seller's approval written the order's status while a listing of that
\* seller among the order's items is not sold.
C4_ApprovalAtomic ==
  \A s \in Slots :
    LET r == reqs[s] IN
    (r.payload.role = "seller" /\ r.body = "approved" /\ r.wrote)
    => \A l \in ItemListings(orderItems, r.id) :
         SellerOf(l) = r.payload.sub => listings[l].status = "sold"

\* C5 (as claimed): a seller's status write is applied only to an order that
\* is pending at the moment of the write.
C5_SellerWritesPendingOnly ==
  [][\A s \in Slots :
       (reqs[s].payload.role = "seller" /\ ~reqs[s].wrote /\ reqs'[s].wrote)
       => orders[reqs[s].id].status = "pending"]_vars

\* C6: an admin's transition of an existing order, whatever its status, to
\* any status of the enum succeeds, and the stored status is then the
\* requested one.
C6_AdminSetsAnyStatus ==
  \A s \in Slots :
    LET r == reqs[s] IN
    (Answered(r) /\ r.payload.role = "admin" /\ Existed(r)
       /\ r.body \in orderStatusEnum)
    => r.resp.status = 200 /\ orders[r.id].status = r.body

\* An admin has moved an order out of a terminal status to another status.
C6_Witness ==
  \E s \in Slots :
    LET r == reqs[s] IN
    /\ Answered(r) /\ r.payload = Admin /\ Existed(r)
    /\ r.pre.orders[r.id].status \in {"completed", "cancelled", "rejected"}
    /\ r.body = "approved" /\ r.resp.status = 200
    /\ orders[r.id].status = "approved"

\* C7 (as claimed): a transition of an order id that does not exist fails
\* with NotFound for admin, seller and buyer alike.
C7_MissingOrderNotFoundForAll ==
  \A s \in Slots :
    LET r == reqs[s] IN
    (Answered(r) /\ r.payload.role \in {"admin", "seller", "buyer"}
       /\ r.id > 0 /\ ~Existed(r))
    => NotFound(r.resp)

\* C7 (amended): a transition of an order id that does not exist fails with
\* NotFound (404) for an admin and for a seller, whatever the request body,
\* and with Forbidden (403) for a buyer, whose role is rejected before the
\* order is loaded.
C7_MissingOrderNotFound ==
  \A s \in Slots :
    LET r == reqs[s] IN
    (Answered(r) /\ r.id > 0 /\ ~Existed(r))
    => /\ r.payload.role \in {"admin", "seller"} => NotFound(r.resp)
       /\ r.payload.role = "buyer" => Forbidden(r.resp)
       /\ Untouched(r)

\* An admin asked for "paid" on an id past every order and got 404, while
\* another order exists.
C7_Witness ==
  \E s \in Slots :
    LET r == reqs[s] IN
    /\ Answered(r) /\ r.payload = Admin /\ r.id > 0 /\ ~Existed(r)
    /\ r.body = "paid" /\ NotFound(r.resp) /\ DOMAIN orders # {}

\* C8: every transition request of a buyer fails with Forbidden, on the
\* buyer's own order as on any other, and changes no order and no listing.
C8_BuyerForbidden ==
  \A s \in Slots :
    LET r == reqs[s] IN
    (Answered(r) /\ r.payload.role = "buyer") => Forbidden(r.resp) /\ Untouched(r)

\* The buyer of a pending order asked for "paid" on it and got 403.
C8_Witness ==
  \E s \in Slots :
    LET r == reqs[s] IN
    /\ Answered(r) /\ r.payload.role = "buyer" /\ Existed(r)
    /\ orders[r.id].buyerId = r.payload.sub /\ orders[r.id].status = "pending"
    /\ r.body = "paid" /\ r.resp.status = 403

\* C9: a seller's transition of an existing order to pending, paid, shipped,
\* completed or cancelled fails with Forbidden, and the status a successful
\* seller transition has written is approved or rejected.
C9_SellerOnlyApprovesOrRejects ==
  \A s \in Slots :
    LET r == reqs[s] IN
    /\ (Answered(r) /\ r.payload.role = "seller" /\ Existed(r)
          /\ r.body \in orderStatusEnum \ {"approved", "rejected"})
       => Forbidden(r.resp) /\ Untouched(r)
    /\ (r.payload.role = "seller" /\ r.wrote)
       => r.body \in {"approved", "rejected"} /\ orders[r.id].status = r.body

\* A seller with an item in a pending order asked for "cancelled" and got 403.
C9_Witness ==
  \E s \in Slots :
    LET r == reqs[s] IN
    /\ Answered(r) /\ r.payload.role = "seller" /\ Existed(r)
    /\ r.pre.orders[r.id].status = "pending" /\ r.body = "cancelled"
    /\ \E l \in ItemListings(orderItems, r.id) : SellerOf(l) = r.payload.sub
    /\ r.resp = jsonError("Sellers can only approve or reject orders", 403)

\* C10: a transition request answered with 404, 403 or 400 has left orders,
\* order items and listings as they were when it came in, and everything a
\* handler throws ends as a response with a status code.
C10_FailureChangesNothing ==
  \A s \in Slots :
    LET r == reqs[s] IN
    Answered(r)
    => /\ r.resp.status \in {200, 400, 401, 403, 404, 500}
       /\ r.resp.status \in {400, 403, 404} => Untouched(r)
       /\ r.resp.status \in {400, 403, 404}
            => NotFound(r.resp) \/ Forbidden(r.resp) \/ InvalidTransition(r.resp)
                 \/ ValidationError(r.resp)

\* After a seller's approval has sold a listing, a request with a status
\* outside the enum was answered 400 and changed nothing.
C10_Witness ==
  \E s \in Slots :
    LET r == reqs[s] IN
    /\ Answered(r) /\ Existed(r) /\ r.body = "bogus" /\ ValidationError(r.resp)
    /\ \E l \in ListingIds : listings[l].status = "sold"
    /\ Untouched(r)

\* C11: an admin's transition, to approved or to any other status, changes
\* no listing's status, and neither does a seller's transition to rejected.
C11_OnlySellerApprovalTouchesListings ==
  \A s \in Slots :
    LET r == reqs[s] IN
    (Answered(r) /\ (r.payload.role = "admin"
                       \/ (r.payload.role = "seller" /\ r.body = "rejected")))
    => listings = r.pre.listings

\* A seller has rejected a pending order that holds one of its listings:
\* the order is rejected and the listing is still active.
C11_Witness ==
  \E s \in Slots :
    LET r == reqs[s] IN
    /\ Answered(r) /\ r.payload = SellerA /\ r.body = "rejected"
    /\ r.resp.status = 200 /\ orders[r.id].status = "rejected"
    /\ \E l \in ItemListings(orderItems, r.id) :
         SellerOf(l) = r.payload.sub /\ listings[l].status = "active"
    /\ listings = r.pre.listings

\* C14: marking sold is idempotent: an approval whose listings to mark are
\* all sold already (the admin has reset the order to pending after an
\* earlier approval) succeeds, and the listings are sold as before.
C14_MarkSoldIdempotent ==
  \A s \in Slots :
    LET r == reqs[s]
        own == {l \in ItemListings(r.pre.orderItems, r.id) : SellerOf(l) = r.payload.sub}
    IN
    (Answered(r) /\ r.payload.role = "seller" /\ r.body = "approved" /\ Existed(r)
       /\ r.pre.orders[r.id].status = "pending" /\ own # {}
       /\ \A l \in own : r.pre.listings[l].status = "sold")
    => /\ r.resp.status = 200
       /\ listings = r.pre.listings
       /\ \A l \in own : listings[l].status = "sold"

\* Seller A approved again an order the admin had reset to pending: listing
\* 1 was sold before the request and is sold after it.
C14_Witness ==
  \E s \in Slots :
    LET r == reqs[s] IN
    /\ Answered(r) /\ r.payload = SellerA /\ r.body = "approved" /\ r.resp.status = 200
    /\ r.pre.orders[r.id].status = "pending" /\ orders[r.id].status = "approved"
    /\ 1 \in ItemListings(orderItems, r.id)
    /\ r.pre.listings[1].status = "sold" /\ listings[1].status = "sold"

\* The requests of the handlers by name, and the rows of one order.
IsOrderPOST(r) == r.op = "POST /api/orders"
IsListingPUT(r) == r.op = "PUT /api/listings/[id]"
ItemsOf(items, id) == {j \in items : j.orderId = id}
ValidCart(cart) == cart # <<>> /\ \A k \in DOMAIN cart : validItem(cart[k]) = NoResp
ActiveIn(table, l) == l \in DOMAIN table /\ table[l].status = "active"

\* C16: an order is created only by POST /api/orders from a caller of role
\* buyer; it starts pending with buyerId the caller's id and has one item per
\* item of the body, every one of a listing that was active; a body naming a
\* listing that does not exist or is not active is answered 404, and a
\* request that is not answered 201 has created no order and no item.
C16_OrdersFromBuyersAndActiveListings ==
  \A s \in Slots :
    LET r == reqs[s] IN
    Answered(r) =>
      /\ (IsOrderPOST(r) /\ r.resp.status = 201) =>
           /\ r.payload.role = "buyer"
           /\ r.id \notin DOMAIN r.pre.orders
           /\ DOMAIN orders = DOMAIN r.pre.orders \cup {r.id}
           /\ orders[r.id].buyerId = r.payload.sub
           /\ orders[r.id].status = "pending"
           /\ \A k \in DOMAIN r.cart : ActiveIn(r.pre.listings, r.cart[k].listingId)
           /\ {<<i.listingId, i.quantity>> : i \in ItemsOf(orderItems, r.id)}
                = {<<r.cart[k].listingId, r.cart[k].quantity>> : k \in DOMAIN r.cart}
      /\ (IsOrderPOST(r) /\ r.payload.role = "buyer" /\ ValidCart(r.cart)
            /\ \E k \in DOMAIN r.cart : ~ActiveIn(r.pre.listings, r.cart[k].listingId))
           => r.resp.status = 404
      /\ ~(IsOrderPOST(r) /\ r.resp.status = 201) =>
           /\ DOMAIN orders = DOMAIN r.pre.orders
           /\ orderItems = r.pre.orderItems

\* Buyer 2 was answered 404 for a cart whose first listing is active and whose
\* second does not exist: no order, no item.
C16_Witness ==
  \E s \in Slots :
    LET r == reqs[s] IN
    /\ Answered(r) /\ IsOrderPOST(r) /\ r.payload = Buyer2
    /\ r.cart = <<Item(3, 1), Item(4, 1)>>
    /\ r.resp.status = 404 /\ orders = <<>> /\ orderItems = {}

\* The sum of price times quantity over a set of order_items rows.
RECURSIVE SumLines(_)
SumLines(rows) ==
  IF rows = {} THEN 0
  ELSE LET i == CHOOSE j \in rows : TRUE
       IN  i.price * i.quantity + SumLines(rows \ {i})

\* C12: in every state (at creation, after any number of transitions of the
\* order and of updates of the listings) the totalPrice of every order is
\* the sum over its items of price times quantity.
C12_TotalIsSumOfLines ==
  \A id \in DOMAIN orders :
    orders[id].totalPrice = SumLines(ItemsOf(orderItems, id))

\* An approved order of two of listing 1 and one of listing 2, after the
\* price of listing 1 was changed: the total is still 2 * 0.50 + 0.15.
C12_Witness ==
  /\ 1 \in DOMAIN orders /\ orders[1].status = "approved"
  /\ {<<i.listingId, i.quantity, i.price>> : i \in ItemsOf(orderItems, 1)}
       = {<<1, 2, 500>>, <<2, 1, 150>>}
  /\ listings[1].price = 710
  /\ orders[1].totalPrice = 1150

\* C13: an order_items row is inserted with the price its listing has at
\* that moment, and no step changes or removes a row that exists, whatever
\* happens to the price of the listing afterwards.
C13_ItemPriceIsSnapshot ==
  [][/\ \A i \in orderItems' \ orderItems : i.price = listings[i.listingId].price
     /\ \A i \in orderItems : i \in orderItems']_vars

\* The owner was answered 200 for a new price of listing 1, and an item
\* ordered before still carries the old price.
C13_Witness ==
  \E s \in Slots :
    LET r == reqs[s] IN
    /\ Answered(r) /\ IsListingPUT(r) /\ r.payload = SellerA /\ r.resp.status = 200
    /\ r.pre.listings[1].price = 500 /\ listings[1].price = 710
    /\ \E i \in orderItems : i.listingId = 1 /\ i.price = 500 /\ i \in r.pre.orderItems

\* C15 (as claimed): a price update on a listing that is sold is not applied.
C15_SoldListingPriceFrozen ==
  \A s \in Slots :
    LET r == reqs[s] IN
    (Answered(r) /\ IsListingPUT(r) /\ r.id \in DOMAIN r.pre.listings
       /\ r.pre.listings[r.id].status = "sold")
    => listings[r.id].price = r.pre.listings[r.id].price

\* C15 (amended): the price of a listing is changed by its owning seller or
\* an admin whatever the status of the listing, sold included: a price that
\* is not negative is answered 200 and stored rounded to two decimals, and
\* the listing keeps its status and its seller; any other seller is answered
\* 403, a negative price 400, and then no listing has changed.
C15_OwnerChangesPriceInAnyStatus ==
  \A s \in Slots :
    LET r == reqs[s] IN
    (Answered(r) /\ IsListingPUT(r) /\ r.id \in DOMAIN r.pre.listings
       /\ r.updates.price # Null /\ r.updates.status = "")
    => IF r.payload.role = "seller" /\ r.pre.listings[r.id].sellerId # r.payload.sub
         THEN r.resp.status = 403 /\ listings = r.pre.listings
       ELSE IF r.updates.price < 0
         THEN r.resp.status = 400 /\ listings = r.pre.listings
       ELSE /\ r.resp.status = 200
            /\ listings = [r.pre.listings EXCEPT
                 ![r.id] = [@ EXCEPT !.price = numeric10_2(r.updates.price)]]

\* Seller A has sent 0.705 as the price of listing 1, which was sold at 0.50:
\* answered 200, the listing is still sold and costs 0.71.
C15_Witness ==
  \E s \in Slots :
    LET r == reqs[s] IN
    /\ Answered(r) /\ IsListingPUT(r) /\ r.payload = SellerA /\ r.id = 1
    /\ r.updates.price = 705 /\ r.resp.status = 200
    /\ r.pre.listings[1].status = "sold" /\ r.pre.listings[1].price = 500
    /\ listings[1].status = "sold" /\ listings[1].price = 710

IsDELETE(r) == r.op = "DELETE /api/orders/[id]"
IsGET(r) == r.op = "GET /api/orders/[id]"
IsLIST(r) == r.op = "GET /api/orders"
IsSELLER(r) == r.op = "GET /api/orders/seller"
Without(table, id) == [i \in DOMAIN table \ {id} |-> table[i]]

\* C17: a DELETE of an order answered 200 came from an admin, has removed
\* the order and every order_items row of it, and has left the listings, the
\* other orders and the other rows as they were; a DELETE from anybody else
\* is answered 403 (401 without a token), a DELETE answered otherwise than
\* 200 has changed nothing, and no other request removes an order or a row.
C17_AdminDeleteCascadesOnly ==
  \A s \in Slots :
    LET r == reqs[s] IN
    Answered(r) =>
      /\ (IsDELETE(r) /\ r.resp.status = 200) =>
           /\ r.payload.role = "admin"
           /\ r.id \in DOMAIN r.pre.orders
           /\ orders = Without(r.pre.orders, r.id)
           /\ orderItems = {i \in r.pre.orderItems : i.orderId # r.id}
           /\ listings = r.pre.listings
      /\ (IsDELETE(r) /\ r.payload.role # "admin") => r.resp.status \in {401, 403}
      /\ (IsDELETE(r) /\ r.resp.status # 200) => Untouched(r)
      /\ ~IsDELETE(r) =>
           /\ DOMAIN r.pre.orders \subseteq DOMAIN orders
           /\ r.pre.orderItems \subseteq orderItems

\* The admin has deleted order 1, which had two items, while order 2 exists:
\* order 2 and its item are there, no row of order 1 is, listings are active.
C17_Witness ==
  \E s \in Slots :
    LET r == reqs[s] IN
    /\ Answered(r) /\ IsDELETE(r) /\ r.payload = Admin /\ r.id = 1 /\ r.resp.status = 200
    /\ Cardinality(ItemsOf(r.pre.orderItems, 1)) = 2
    /\ DOMAIN orders = {2}
    /\ ItemsOf(orderItems, 2) # {} /\ orderItems = ItemsOf(r.pre.orderItems, 2)
    /\ \A l \in ListingIds : listings[l].status = "active"

\* C18: GET /api/orders/{id} is answered 200 only to an admin or to the buyer
\* whose id is the order's buyerId, and then with the items of that order; a
\* buyer with another id is answered 403 and so is a seller; GET /api/orders
\* returns to a buyer exactly the orders whose buyerId is that buyer's id.
C18_OrderReadByBuyerOrAdmin ==
  \A s \in Slots :
    LET r == reqs[s] IN
    Answered(r) =>
      /\ (IsGET(r) /\ r.resp.status = 200) =>
           /\ r.id \in DOMAIN orders
           /\ r.payload.role = "admin"
                \/ (r.payload.role = "buyer" /\ orders[r.id].buyerId = r.payload.sub)
           /\ r.data = ItemsOf(orderItems, r.id)
      /\ (IsGET(r) /\ r.payload.role = "buyer" /\ r.id \in DOMAIN orders
            /\ orders[r.id].buyerId # r.payload.sub)
           => r.resp.status = 403 /\ r.data = {}
      /\ (IsGET(r) /\ r.payload.role = "seller") => r.resp.status = 403 /\ r.data = {}
      /\ (IsLIST(r) /\ r.payload.role = "buyer") =>
           /\ r.resp.status = 200
           /\ r.data = {[id |-> i, buyerId |-> r.payload.sub] :
                          i \in {j \in DOMAIN orders : orders[j].buyerId = r.payload.sub}}

\* Buyer 2 asked for order 1, placed by buyer 1, while having an order of
\* their own: 403 and nothing returned.
C18_Witness ==
  \E s \in Slots :
    LET r == reqs[s] IN
    /\ Answered(r) /\ IsGET(r) /\ r.payload = Buyer2 /\ r.id = 1
    /\ DOMAIN orders = {1, 2}
    /\ orders[1].buyerId = Buyer1.sub /\ orders[2].buyerId = Buyer2.sub
    /\ r.resp.status = 403 /\ r.data = {}

\* C19: GET /api/orders/seller answers a seller or an admin with exactly the
\* orders that have an item of a listing the caller owns, each with exactly
\* its items of the caller's listings; the list is empty when the caller owns
\* no listing or no order has an item of the caller's listings.
OwnItems(payload, id) ==
  {i \in ItemsOf(orderItems, id) : listings[i.listingId].sellerId = payload.sub}
C19_SellerSeesOwnItemsOnly ==
  \A s \in Slots :
    LET r == reqs[s] IN
    (Answered(r) /\ IsSELLER(r) /\ r.payload.role \in {"seller", "admin"})
    => /\ r.resp.status = 200
       /\ r.data = {[id |-> o, items |-> OwnItems(r.payload, o)] :
                      o \in {i \in DOMAIN orders : OwnItems(r.payload, i) # {}}}

\* Seller B owns listing 2 only. Of an order of listings 1 and 2 and an order
\* of listing 3, seller B was returned the first with its item of listing 2.
C19_Witness ==
  \E s \in Slots :
    LET r == reqs[s] IN
    /\ Answered(r) /\ IsSELLER(r) /\ r.payload = SellerB /\ r.resp.status = 200
    /\ \E o, p \in DOMAIN orders :
         /\ ItemListings(orderItems, o) = {1, 2}
         /\ ItemListings(orderItems, p) = {3}
         /\ \E d \in r.data : d.id = o /\ {i.listingId : i \in d.items} = {2}
         /\ \A d \in r.data : d.id # p

IsREVIEW(r) == r.op = "POST /api/listings/[id]/reviews"

\* C20: in every state at most one review exists for each pair of reviewer
\* and listing, and a submission of a buyer who has a review of the listing
\* when the request arrives is not answered 201.
C20_OneReviewPerReviewerAndListing ==
  /\ \A i, j \in DOMAIN reviews :
       (reviews[i].reviewerId = reviews[j].reviewerId
          /\ reviews[i].listingId = reviews[j].listingId) => i = j
  /\ \A s \in Slots :
       LET r == reqs[s] IN
       (Answered(r) /\ IsREVIEW(r) /\ r.resp.status = 201)
       => Cardinality({i \in DOMAIN reviews :
             reviews[i].reviewerId = r.payload.sub /\ reviews[i].listingId = r.id}) = 1

IsAUTH(r) == r.op = "authenticate / authorize"
Verifies(h) ==
  h # NoHeader /\ h.scheme = "Bearer " /\ h.token.key = JWT_SECRET /\ ~h.token.expired

\* C21: authenticate returns the payload of the token exactly for a header
\* 'Bearer <token>' whose token is signed with the secret and not expired;
\* for no header, another scheme or a token that does not verify it throws
\* AuthError 401. The guard of authorize throws AuthError 403 exactly when
\* the role of the payload is not among the allowed roles.
C21_AuthenticateAndAuthorize ==
  \A s \in Slots :
    LET r == reqs[s] IN
    (Answered(r) /\ IsAUTH(r)) =>
      IF Verifies(r.header)
        THEN /\ r.payload = r.header.token.payload
             /\ r.resp.status = 403 <=> r.payload.role \notin r.allowedRoles
             /\ r.resp.status = 200 <=> r.payload.role \in r.allowedRoles
        ELSE r.payload = NoToken /\ r.resp.status = 401

\* A token for the admin that was signed with another key, sent as a Bearer
\* token to a handler for admins: 401.
C21_Witness ==
  \E s \in Slots :
    LET r == reqs[s] IN
    /\ Answered(r) /\ IsAUTH(r)
    /\ r.header = Header("Bearer ", Token(Admin, "another key", FALSE))
    /\ r.allowedRoles = {"admin"}
    /\ r.resp.status = 401 /\ r.payload = NoToken

IsREGISTER(r) == r.op = "POST /api/auth/register"
IsUserPUT(r) == r.op = "PUT /api/users/[id]"
Admins(table) == {u \in DOMAIN table : table[u].role = "admin"}

\* C22: a registration creates a user of role buyer (the default) or seller
\* and answers 400 to role admin; a request whose actor is no admin changes
\* the role of no user; so no registration and no request of an actor who is
\* no admin adds an admin to the users.
C22_NoEscalationToAdmin ==
  \A s \in Slots :
    LET r == reqs[s] IN
    Answered(r) =>
      /\ (IsREGISTER(r) /\ r.resp.status = 201) =>
           /\ r.id \notin DOMAIN r.pre.users
           /\ users[r.id].role = roleOrDefault(r.json)
           /\ users[r.id].role \in {"buyer", "seller"}
      /\ (IsREGISTER(r) /\ r.json.role = "admin") =>
           r.resp.status = 400 /\ users = r.pre.users
      /\ r.payload.role # "admin" =>
           /\ \A u \in DOMAIN users \cap DOMAIN r.pre.users :
                users[u].role = r.pre.users[u].role
           /\ Admins(users) \subseteq Admins(r.pre.users)

\* Ann, who registered as a seller in this run, has asked for the role admin
\* for herself: 403, and she is a seller.
C22_Witness ==
  \E s \in Slots :
    LET r == reqs[s] IN
    /\ Answered(r) /\ IsUserPUT(r) /\ r.payload = [sub |-> 6, role |-> "seller"]
    /\ r.id = 6 /\ r.json.role = "admin"
    /\ r.resp.status = 403 /\ users[6].role = "seller"

IsListingDELETE(r) == r.op = "DELETE /api/listings/[id]"
IsListingGET(r) == r.op = "GET /api/listings/[id]"
\* The listings that a request has changed or removed.
Touched(r) ==
  {l \in DOMAIN r.pre.listings : l \notin DOMAIN listings \/ listings[l] # r.pre.listings[l]}

\* C23: an update or a delete of a listing by a seller whose id is not the
\* listing's sellerId is answered 403, and so is one by a buyer, and then no
\* listing has changed; a request that has updated or deleted a listing came
\* from an admin or from the seller who owns it; and no request changes the
\* sellerId of a listing.
C23_ListingWrittenByOwnerOrAdmin ==
  \A s \in Slots :
    LET r == reqs[s] IN
    Answered(r) =>
      /\ ((IsListingPUT(r) \/ IsListingDELETE(r)) /\ r.id \in DOMAIN r.pre.listings
            /\ \/ r.payload.role = "buyer"
               \/ r.payload.role = "seller"
                    /\ r.pre.listings[r.id].sellerId # r.payload.sub)
           => r.resp.status = 403 /\ listings = r.pre.listings
      /\ ((IsListingPUT(r) \/ IsListingDELETE(r)) /\ Touched(r) # {})
           => /\ Touched(r) = {r.id}
              /\ r.payload.role = "admin"
                   \/ (r.payload.role = "seller"
                         /\ r.pre.listings[r.id].sellerId = r.payload.sub)
      /\ \A l \in DOMAIN listings \cap DOMAIN r.pre.listings :
           listings[l].sellerId = r.pre.listings[l].sellerId

\* Seller B has asked to delete listing 1 of seller A, which nobody has
\* ordered: 403, and the listing is there as it was.
C23_Witness ==
  \E s \in Slots :
    LET r == reqs[s] IN
    /\ Answered(r) /\ IsListingDELETE(r) /\ r.payload = SellerB /\ r.id = 1
    /\ orderItems = {}
    /\ r.resp.status = 403 /\ 1 \in DOMAIN listings /\ listings = r.pre.listings

\* C24: GET /api/listings/{id} returns a listing that is active to every
\* requester; a listing that is sold or removed is returned to an admin and
\* to the requester whose token carries the id of the listing's seller, and
\* every other requester, with a token or without, is answered 404.
C24_OnlyActiveListingsPublic ==
  \A s \in Slots :
    LET r == reqs[s] IN
    (Answered(r) /\ IsListingGET(r) /\ r.id \in DOMAIN listings) =>
      IF \/ listings[r.id].status = "active"
         \/ r.payload.role = "admin"
         \/ (r.payload # NoToken /\ r.payload.sub = listings[r.id].sellerId)
        THEN r.resp.status = 200 /\ r.data = {[id |-> r.id] @@ listings[r.id]}
        ELSE r.resp.status = 404 /\ r.data = {}

\* Seller B has asked for listing 1 of seller A, which is sold: 404.
C24_Witness ==
  \E s \in Slots :
    LET r == reqs[s] IN
    /\ Answered(r) /\ IsListingGET(r) /\ r.payload = SellerB /\ r.id = 1
    /\ listings[1].status = "sold" /\ listings[1].sellerId = SellerA.sub
    /\ r.resp.status = 404 /\ r.data = {}

\* C25: once a seller's approval or rejection of an order has been written,
\* an attempt of another seller to approve or reject that order which arrives
\* afterwards (it finds the order approved or rejected) fails with
\* InvalidTransition, writes nothing, and leaves the order's status and the
\* status of every listing as they were; this holds for requests in flight
\* together as well.
C25_LaterSellerTransitionFails ==
  \A s \in Slots :
    LET r == reqs[s] IN
    (Answered(r) /\ r.op = "PUT /api/orders/[id]" /\ r.payload.role = "seller"
       /\ r.body \in {"approved", "rejected"} /\ Existed(r)
       /\ r.pre.orders[r.id].status \in {"approved", "rejected"})
    => /\ InvalidTransition(r.resp)
       /\ ~r.wrote
       /\ orders[r.id].status = r.pre.orders[r.id].status
       /\ \A l \in DOMAIN listings : listings[l].status = r.pre.listings[l].status

\* The order has an item of seller A and one of seller B. Seller A has
\* approved it, listing 1 is sold; seller B's approval got InvalidTransition
\* and listing 2 of seller B is active.
C25_Witness ==
  \E s \in Slots :
    LET r == reqs[s] IN
    /\ Answered(r) /\ r.payload = SellerB /\ r.body = "approved" /\ Existed(r)
    /\ ItemListings(orderItems, r.id) = {1, 2}
    /\ r.pre.orders[r.id].status = "approved" /\ r.pre.listings[1].status = "sold"
    /\ InvalidTransition(r.resp)
    /\ orders[r.id].status = "approved" /\ listings[2].status = "active"

\* C26 (as claimed): no listing is referenced by the items of two different
\* orders that are both approved.
C26_NoListingSoldTwice ==
  \A o, p \in DOMAIN orders :
    (o # p /\ orders[o].status = "approved" /\ orders[p].status = "approved")
    => ItemListings(orderItems, o) \cap ItemListings(orderItems, p) = {}

\* C27 (as claimed): when the transaction of an order creation inserts the
\* order and its items, the listing of every item has status active.
C27_ItemsActiveAtInsert ==
  [][\A s \in Slots :
       (reqs[s].pc = "transaction" /\ reqs'[s].pc = "done")
       => \A k \in 1 .. Len(reqs[s].resolvedItems) :
            listings[reqs[s].resolvedItems[k].listingId].status = "active"]_vars

\* C28: every order has at least one order item, every order item belongs to
\* an existing order, and an order creation whose transaction fails leaves
\* the orders and the order items as they were.
C28_OrderAndItemsTogether ==
  /\ [](/\ \A o \in DOMAIN orders : \E i \in orderItems : i.orderId = o
        /\ \A i \in orderItems : i.orderId \in DOMAIN orders)
  /\ [][\A s \in Slots :
          (reqs[s].pc = "transaction" /\ reqs'[s].pc = "done"
             /\ reqs'[s].resp.status # 201)
          => (orders' = orders /\ orderItems' = orderItems)]_vars
\* An order creation was answered 500 after its order row had been inserted
\* and rolled back, next to an order that was committed with its items.
C28_Witness ==
  /\ orders # <<>>
  /\ \E s \in Slots :
       /\ IsOrderPOST(reqs[s]) /\ reqs[s].pc = "done" /\ reqs[s].resp.status = 500
       /\ buyerExists(reqs[s].payload)
       /\ reqs[s].resolvedItems # <<>>

\* C29 (as claimed): a request is granted (answered 200 or 201) only when
\* the user of its token exists and has the token's role in the users table
\* at the time of the request.
C29_RightsFollowCurrentRole ==
  \A s \in Slots :
    (reqs[s].pc = "done" /\ reqs[s].resp.status \in {200, 201})
    => /\ reqs[s].payload.sub \in DOMAIN reqs[s].pre.users
       /\ reqs[s].pre.users[reqs[s].payload.sub].role = reqs[s].payload.role

\* C30: runMigrations ends, by a return or a throw, after at most MAX_RETRIES
\* attempts; an attempt that succeeds returns; a failed attempt is followed
\* by another only when a code of the failure is ENOTFOUND, ECONNREFUSED,
\* ETIMEDOUT or ECONNRESET and the attempt is not the last, otherwise its
\* error is thrown; and the pool of an attempt is ended before the next
\* attempt starts and before the run ends.
RetryCodes == {"ENOTFOUND", "ECONNREFUSED", "ETIMEDOUT", "ECONNRESET"}
Ended == migration.pc \in {"returned", "threw"}
C30_RunMigrationsTerminates ==
  /\ [](/\ migration.attempt <= MAX_RETRIES
        /\ migration.pools \subseteq {migration.attempt}
        /\ (Ended \/ migration.pc = "loop") => migration.pools = {}
        /\ migration.pc = "returned" => migration.err = NoErr
        /\ migration.pc = "threw" => migration.err # NoErr)
  /\ [][/\ (migration.pc = "migrate" /\ migration'.pc = "delay")
           => /\ {migration'.err.code, migration'.err.cause} \cap RetryCodes # {}
              /\ migration.attempt < MAX_RETRIES
        /\ (migration.pc = "migrate" /\ migration'.err # NoErr
              /\ ({migration'.err.code, migration'.err.cause} \cap RetryCodes = {}
                    \/ migration.attempt = MAX_RETRIES))
           => migration'.completion = "throw"
        /\ (migration.pc = "finally" /\ migration.completion = "throw")
           => (migration'.pc = "threw" /\ migration'.err = migration.err)
        /\ (migration.pc = "finally" /\ migration.completion = "return")
           => migration'.pc = "returned"]_vars
  /\ <>Ended
\* The tenth attempt failed with a code that was retried nine times: the run
\* threw and no pool is left open.
C30_Witness ==
  /\ migration.pc = "threw"
  /\ migration.attempt = MAX_RETRIES
  /\ migration.err.code \in RetryCodes
  /\ migration.pools = {}

====
